---- MODULE Spec2Model ----
(***************************************************************************)
(* Model of the bevy-tutti orchestration layer: one-shot trigger           *)
(* components ("intents") are turned into nodes of the tutti audio graph   *)
(* and into engine calls by per-frame systems of the Update schedule;      *)
(* deferred Commands are applied at the schedule's sync points.            *)
(*                                                                         *)
(* A frame ("tick") is the run of the systems in one legal order of the    *)
(* schedule built in TuttiPlugin::build.  Between frames the application   *)
(* inserts triggers, assets finish loading, and the user may remove        *)
(* components or despawn entities.  The audio thread (a sampler reaching   *)
(* the end of its wave), a plugin crash and the export worker are          *)
(* asynchronous.                                                           *)
(***************************************************************************)
EXTENDS Integers, Sequences, FiniteSets, TLC

\* ------------------------------------------------------------------ bounds
\* Number of entities of the world.
NumEntities == 2
\* Total number of trigger insertions in one behaviour of a one-feature build.
MaxInserts == 2
\* Total number of trigger insertions in one behaviour of the full build.
MaxTriggers == 2
\* Total number of receiver insertions, writes and removals in one behaviour.
MaxBindings == 3
\* Total number of StartRecording / StopRecording insertions in one behaviour.
MaxRecordings == 3
\* Total number of MIDI events the hardware input delivers in one behaviour.
MaxEvents == 4

Entities == 1..NumEntities
\* NodeId values handed out by net.add; 0 stands for "no node".
NodeIds == 1..(MaxInserts + MaxTriggers)

\* ------------------------------------------------------------------ names
\* Trigger components whose system adds a node to the graph.
NodeKinds ==
    {"PlayAudio", "PlaySoundFont", "PlayNeuralSynth", "PlayNeuralEffect",
     "LoadPlugin", "AddCompressor", "AddGate", "AddLfo", "AddAutomationLane"}

\* Trigger components whose system calls into the engine.
CallKinds ==
    {"StartRecording", "StopRecording", "StartExport",
     "EnableLiveAnalysis", "DisableLiveAnalysis",
     "EnableAudioInput", "DisableAudioInput",
     "SendMidi", "SendMidi2", "ConnectMidiDevice", "DisconnectMidiDevice"}

Kinds == NodeKinds \cup CallKinds

\* Components without payload that the systems read or write.
MarkerComps ==
    {"TimeStretch", "TimeStretchControl", "DespawnOnFinish",
     "PluginEmitter", "PluginEditorOpen",
     "RecordingResult", "ExportComplete", "ExportFailed",
     "SpatialAudio", "AudioListener"}

\* Asset collections: Assets<TuttiAudioSource>, Assets<SoundFontSource>,
\* Assets<NeuralModelSource>.
AssetTypes == {"audio", "soundfont", "neural"}

\* File extensions of LoadPlugin.path ("" = no extension).
Extensions == {"vst3", "VST3", "clap", "dll", "so", "vst", "txt", ""}

\* Sampler channels a recording is started or stopped on.
Channels == {0, 1}

\* MIDI channels a MidiReceiver filters on.
MidiChannels == {0, 1}

\* The two receiver components midi_routing_sync_system watches.
ReceiverKinds == {"MidiReceiver", "MpeReceiver"}

VARIABLES
    engine,     \* "none": no TuttiEngineResource; "plain": engine without MIDI; "midi": with MIDI
    ent,        \* the ECS world: per entity, its components
    net,        \* the audio graph: per NodeId, the node (or NoNode)
    nextNode,   \* the NodeId the next net.add returns
    eng,        \* engine-side state the trigger systems call into
    res,        \* the resources LiveAnalysisData.is_live and MidiDeviceState
    assets,     \* per asset type: TRUE iff Assets<T>::get finds the asset
    cmds,       \* the Commands queue awaiting the next sync point
    pc,         \* position in the frame's schedule; 0 = between frames
    order,      \* which legal order of the unordered systems this frame takes
    inserts,    \* trigger insertions so far
    released    \* history: per node, 0 | 1 emitter removed by the user | 2 ... and a whole frame ran since

vars == <<engine, ent, net, nextNode, eng, res, assets, cmds, pc, order, inserts,
          released>>

\* ------------------------------------------------------------------ world
\* owner is history: the entity the node was created for.
\* gain is the sampler's gain in hundredths (Unity is 1.0); stretch_factor and
\* pitch_cents are the two atomics a TimeStretchUnit reads (0 on every other
\* node).  source, piped, azimuth and elevation are a SpatialPannerNode's: the
\* node connected to its input port 0, whether it is piped to the output, and
\* the position set_position stored, in degrees.  format is the builder a
\* plugin unit came from.
Unity == 100

NoNode ==
    [kind |-> "none", looping |-> FALSE, playing |-> FALSE, owner |-> 0,
     gain |-> 0, stretch_factor |-> 0, pitch_cents |-> 0,
     source |-> 0, piped |-> FALSE, azimuth |-> 0, elevation |-> 0, format |-> ""]

Contains(g, n) == n \in NodeIds /\ g[n].kind # "none"

\* What net.remove leaves of unit x: nothing in the graph.  The two
\* Arc<AtomicFloat> of a stretch unit are shared with the TimeStretchControl
\* and keep their values.
Removed(x) ==
    [NoNode EXCEPT !.stretch_factor = x.stretch_factor, !.pitch_cents = x.pitch_cents]

\* StartRecording / RecordingActive payload; channel_index -1 = no component.
NoRecording == [channel_index |-> -1, source |-> "", mode |-> ""]

\* EnableAudioInput payload; device_index -1 = None.
NoInput == [device_index |-> -1, monitoring |-> FALSE, gain |-> 1]

\* MidiReceiver payload; node_id 0 = no component, channel -1 = None.
NoReceiver == [node_id |-> 0, channel |-> -1]

\* No TimeStretch component.
NoStretch == [stretch_factor |-> 0, pitch_cents |-> 0]

\* No AudioVolume component.
NoVolume == -1

\* No SpatialAudio component; panner_node_id 0 = None.
NoSpatial ==
    [panner_node_id |-> 0, attenuation |-> "", ref_distance |-> 0, max_distance |-> 0]

\* GlobalTransform::IDENTITY: translation (x, y, z); facing is the rotation,
\* 1 the identity (looking down -Z), -1 a half turn about Y.
Identity == [translation |-> << 0, 0, 0 >>, facing |-> 1]

\* An entity without components; alive = FALSE after despawn.  executed and
\* failed are history: how often the systems executed the trigger component
\* the entity carries now, and whether they logged an error for it.
BareEntity(a) ==
    [alive |-> a, intents |-> {}, added |-> {},
     executed |-> [k \in Kinds |-> 0], failed |-> {},
     looping |-> FALSE, auto_despawn |-> FALSE, ext |-> "",
     start |-> NoRecording, stop_channel |-> -1, input |-> NoInput,
     AudioEmitter |-> 0, AudioPlaybackState |-> "None",
     AutomationLaneEmitter |-> 0,
     RecordingActive |-> NoRecording,
     ExportInProgress |-> "None", reason |-> "", error |-> "",
     MidiReceiver |-> NoReceiver, MpeReceiver |-> 0, changed |-> {},
     AudioVolume |-> NoVolume, TimeStretch |-> NoStretch, TimeStretchControl |-> 0,
     SpatialAudio |-> NoSpatial, GlobalTransform |-> Identity,
     comps |-> {}, is_crashed |-> FALSE]

\* ------------------------------------------------------------------ commands
Cmd(e, op, c, n, s, r) == [e |-> e, op |-> op, c |-> c, n |-> n, s |-> s, r |-> r]

Remove(e, c) == Cmd(e, "remove", c, 0, "", NoRecording)
Insert(e, c) == Cmd(e, "insert", c, 0, "", NoRecording)
InsertEmitter(e, n) == Cmd(e, "insert", "AudioEmitter", n, "", NoRecording)
InsertLane(e, n) == Cmd(e, "insert", "AutomationLaneEmitter", n, "", NoRecording)
InsertState(e, s) == Cmd(e, "insert", "AudioPlaybackState", 0, s, NoRecording)
InsertActive(e, r) == Cmd(e, "insert", "RecordingActive", 0, "", r)
InsertExport(e, s) == Cmd(e, "insert", "ExportInProgress", 0, s, NoRecording)
InsertControl(e, n) == Cmd(e, "insert", "TimeStretchControl", n, "", NoRecording)
InsertFailed(e, error) == Cmd(e, "insert", "ExportFailed", 0, error, NoRecording)
Despawn(e) == Cmd(e, "despawn", "", 0, "", NoRecording)

\* remove::<C>() on the components r of an entity.
RemoveComp(r, c) ==
    IF c \in Kinds THEN
        [r EXCEPT !.intents = @ \ {c}, !.added = @ \ {c},
                  !.executed = [@ EXCEPT ![c] = 0], !.failed = @ \ {c},
                  !.looping = IF c = "PlayAudio" THEN FALSE ELSE @,
                  !.auto_despawn = IF c = "PlayAudio" THEN FALSE ELSE @,
                  !.ext = IF c = "LoadPlugin" THEN "" ELSE @,
                  !.start = IF c = "StartRecording" THEN NoRecording ELSE @,
                  !.stop_channel = IF c = "StopRecording" THEN -1 ELSE @,
                  !.input = IF c = "EnableAudioInput" THEN NoInput ELSE @]
    ELSE IF c = "AudioEmitter" THEN [r EXCEPT !.AudioEmitter = 0]
    ELSE IF c = "RecordingActive" THEN [r EXCEPT !.RecordingActive = NoRecording]
    ELSE IF c = "ExportInProgress"
        THEN [r EXCEPT !.ExportInProgress = "None", !.reason = ""]
    ELSE [r EXCEPT !.comps = @ \ {c},
                   !.TimeStretch = IF c = "TimeStretch" THEN NoStretch ELSE @,
                   !.TimeStretchControl = IF c = "TimeStretchControl" THEN 0 ELSE @,
                   !.error = IF c = "ExportFailed" THEN "" ELSE @,
                   !.is_crashed = IF c = "PluginEmitter" THEN FALSE ELSE @]

\* insert(C) on the components r of an entity.
InsertComp(r, c) ==
    IF c.c = "AudioEmitter" THEN [r EXCEPT !.AudioEmitter = c.n]
    ELSE IF c.c = "AutomationLaneEmitter" THEN [r EXCEPT !.AutomationLaneEmitter = c.n]
    ELSE IF c.c = "AudioPlaybackState" THEN [r EXCEPT !.AudioPlaybackState = c.s]
    ELSE IF c.c = "RecordingActive" THEN [r EXCEPT !.RecordingActive = c.r]
    ELSE IF c.c = "ExportInProgress"
        THEN [r EXCEPT !.ExportInProgress = c.s, !.reason = ""]
    ELSE [r EXCEPT !.comps = @ \cup {c.c},
                   !.TimeStretchControl = IF c.c = "TimeStretchControl" THEN c.n ELSE @,
                   !.error = IF c.c = "ExportFailed" THEN c.s ELSE @,
                   !.is_crashed = IF c.c = "PluginEmitter" THEN FALSE ELSE @]

\* One command applied to the components r of its entity.  A command for an
\* entity that no longer exists changes nothing.
ApplyCmd(r, c) ==
    IF ~r.alive THEN r
    ELSE IF c.op = "despawn" THEN BareEntity(FALSE)
    ELSE IF c.op = "remove" THEN RemoveComp(r, c.c)
    ELSE InsertComp(r, c)

RECURSIVE ApplyAll(_, _)
ApplyAll(w, cs) ==
    IF cs = <<>> THEN w
    ELSE ApplyAll([w EXCEPT ![Head(cs).e] = ApplyCmd(@, Head(cs))], Tail(cs))

\* The commands of the entities 1..i, in query iteration order.
RECURSIVE Flatten(_, _)
Flatten(f, i) == IF i = 0 THEN <<>> ELSE Flatten(f, i - 1) \o f[i]

CmdsFor(e, q) == SelectSeq(q, LAMBDA c : c.e = e)

\* ------------------------------------------------------------------ schedule
\* Two legal orders of the Update schedule of the full build.  The chain
\* audio_playback_system -> (sync point) -> audio_cleanup_system is fixed; the
\* other systems are not ordered against it and run either before its sync
\* point or after it.
ScheduleA ==
    << "soundfont_playback_system", "neural_synth_playback_system",
       "neural_effect_playback_system", "plugin_load_system",
       "dsp_compressor_system", "dsp_gate_system", "dsp_lfo_system",
       "automation_lane_system",
       "recording_start_system", "recording_stop_system",
       "export_start_system",
       "live_analysis_control_system", "audio_input_control_system",
       "midi_send_system", "midi2_send_system", "midi_device_connect_system",
       "audio_playback_system", "apply_deferred", "audio_cleanup_system",
       "plugin_crash_detect_system", "export_poll_system", "end_of_frame" >>

ScheduleB ==
    << "audio_playback_system", "apply_deferred", "audio_cleanup_system",
       "plugin_crash_detect_system", "plugin_load_system", "export_poll_system",
       "export_start_system",
       "recording_stop_system", "recording_start_system",
       "midi_device_connect_system", "midi2_send_system", "midi_send_system",
       "audio_input_control_system", "live_analysis_control_system",
       "automation_lane_system",
       "soundfont_playback_system", "neural_synth_playback_system",
       "neural_effect_playback_system", "dsp_lfo_system",
       "dsp_compressor_system", "dsp_gate_system",
       "end_of_frame" >>

\* The schedule of a build with the sampler feature only (dsp_lfo_system is
\* registered in every build), again in two legal orders.
ScheduleS ==
    << "dsp_lfo_system", "audio_playback_system", "apply_deferred",
       "audio_cleanup_system", "end_of_frame" >>

ScheduleT ==
    << "audio_playback_system", "apply_deferred", "audio_cleanup_system",
       "dsp_lfo_system", "end_of_frame" >>

\* A schedule whose sync point would come after the systems that follow
\* audio_playback_system.
ScheduleLateSync ==
    << "dsp_lfo_system", "audio_playback_system",
       "time_stretch_sync_system", "audio_parameter_sync_system",
       "audio_cleanup_system", "apply_deferred", "end_of_frame" >>

\* The sampler build with the two parameter sync systems: the chain
\* audio_playback_system -> audio_parameter_sync_system -> audio_cleanup_system,
\* and time_stretch_sync_system anywhere after audio_playback_system.  Every
\* ordering edge that leaves audio_playback_system gets the sync point, since
\* that system queues commands.
ScheduleV ==
    << "dsp_lfo_system", "audio_playback_system", "apply_deferred",
       "time_stretch_sync_system", "audio_parameter_sync_system",
       "audio_cleanup_system", "end_of_frame" >>

ScheduleW ==
    << "audio_playback_system", "apply_deferred", "audio_parameter_sync_system",
       "audio_cleanup_system", "time_stretch_sync_system", "dsp_lfo_system",
       "end_of_frame" >>

\* The build with the sampler and spatial features: the chain
\* audio_playback_system -> audio_parameter_sync_system -> audio_cleanup_system,
\* and spatial_audio_sync_system after audio_playback_system and before
\* audio_cleanup_system, on either side of audio_parameter_sync_system.
ScheduleY ==
    << "audio_playback_system", "apply_deferred", "audio_parameter_sync_system",
       "spatial_audio_sync_system", "audio_cleanup_system", "end_of_frame" >>

ScheduleZ ==
    << "audio_playback_system", "apply_deferred", "spatial_audio_sync_system",
       "audio_parameter_sync_system", "audio_cleanup_system", "end_of_frame" >>

\* The schedule of a build with the plugin feature only: its three systems
\* are not ordered against each other or against dsp_lfo_system, and no
\* ordering edge asks for a sync point before the end of the frame.
ScheduleP ==
    << "plugin_load_system", "plugin_editor_idle_system",
       "plugin_crash_detect_system", "dsp_lfo_system", "end_of_frame" >>

ScheduleQ ==
    << "dsp_lfo_system", "plugin_crash_detect_system",
       "plugin_editor_idle_system", "plugin_load_system", "end_of_frame" >>

\* The mirror systems are registered without any order; ScheduleX is the
\* build with the analysis feature, ScheduleN the full build with the mirror
\* systems in front.
MirrorSystems ==
    << "transport_sync_system", "metering_sync_system", "device_state_sync_system",
       "content_bounds_sync_system", "live_analysis_sync_system",
       "audio_input_sync_system" >>

ScheduleX == << "live_analysis_control_system" >> \o MirrorSystems \o << "end_of_frame" >>

ScheduleN == MirrorSystems \o ScheduleA

\* The schedule of a build with the MIDI features: of its systems only
\* midi_routing_sync_system reads the receiver components or writes the table.
ScheduleM == << "midi_routing_sync_system", "end_of_frame" >>

\* The control systems of the analysis, the audio input and the MIDI device,
\* none of which is ordered against another, in two legal orders.
ScheduleC ==
    << "live_analysis_control_system", "audio_input_control_system",
       "midi_device_connect_system", "midi_device_poll_system", "end_of_frame" >>

ScheduleD ==
    << "midi_device_poll_system", "midi_device_connect_system",
       "audio_input_control_system", "live_analysis_control_system", "end_of_frame" >>

\* The head of the MIDI chain on its own.
ScheduleI == << "midi_input_event_system", "end_of_frame" >>

\* The two recording systems are registered without an order between them.
ScheduleR == << "recording_start_system", "recording_stop_system", "end_of_frame" >>

ScheduleU == << "recording_stop_system", "recording_start_system", "end_of_frame" >>

\* The transport mirror and the recording start are registered by separate
\* add_systems calls without an ordering between them: either runs first.
ScheduleG == << "transport_sync_system", "recording_start_system", "end_of_frame" >>

ScheduleH == << "recording_start_system", "transport_sync_system", "end_of_frame" >>

\* The two export systems are registered without an order between them.
ScheduleE == << "export_start_system", "export_poll_system", "end_of_frame" >>

ScheduleF == << "export_poll_system", "export_start_system", "end_of_frame" >>

ScheduleOf(o) ==
    IF o = "A" THEN ScheduleA
    ELSE IF o = "B" THEN ScheduleB
    ELSE IF o = "S" THEN ScheduleS
    ELSE IF o = "T" THEN ScheduleT
    ELSE IF o = "P" THEN ScheduleP
    ELSE IF o = "Q" THEN ScheduleQ
    ELSE IF o = "R" THEN ScheduleR
    ELSE IF o = "E" THEN ScheduleE
    ELSE IF o = "F" THEN ScheduleF
    ELSE IF o = "U" THEN ScheduleU
    ELSE IF o = "V" THEN ScheduleV
    ELSE IF o = "X" THEN ScheduleX
    ELSE IF o = "N" THEN ScheduleN
    ELSE IF o = "W" THEN ScheduleW
    ELSE IF o = "Y" THEN ScheduleY
    ELSE IF o = "Z" THEN ScheduleZ
    ELSE IF o = "G" THEN ScheduleG
    ELSE IF o = "I" THEN ScheduleI
    ELSE IF o = "C" THEN ScheduleC
    ELSE IF o = "D" THEN ScheduleD
    ELSE IF o = "H" THEN ScheduleH
    ELSE ScheduleM

Schedule == ScheduleOf(order)

AtSystem(name) == pc > 0 /\ Schedule[pc] = name

Idle == pc = 0

\* The triggers a system's Added queries read ({} for the other systems).
TriggersOf(name) ==
    IF name = "audio_playback_system" THEN {"PlayAudio"}
    ELSE IF name = "soundfont_playback_system" THEN {"PlaySoundFont"}
    ELSE IF name = "neural_synth_playback_system" THEN {"PlayNeuralSynth"}
    ELSE IF name = "neural_effect_playback_system" THEN {"PlayNeuralEffect"}
    ELSE IF name = "plugin_load_system" THEN {"LoadPlugin"}
    ELSE IF name = "dsp_compressor_system" THEN {"AddCompressor"}
    ELSE IF name = "dsp_gate_system" THEN {"AddGate"}
    ELSE IF name = "dsp_lfo_system" THEN {"AddLfo"}
    ELSE IF name = "automation_lane_system" THEN {"AddAutomationLane"}
    ELSE IF name = "recording_start_system" THEN {"StartRecording"}
    ELSE IF name = "recording_stop_system" THEN {"StopRecording"}
    ELSE IF name = "export_start_system" THEN {"StartExport"}
    ELSE IF name = "live_analysis_control_system"
        THEN {"EnableLiveAnalysis", "DisableLiveAnalysis"}
    ELSE IF name = "audio_input_control_system"
        THEN {"EnableAudioInput", "DisableAudioInput"}
    ELSE IF name = "midi_send_system" THEN {"SendMidi"}
    ELSE IF name = "midi2_send_system" THEN {"SendMidi2"}
    ELSE IF name = "midi_device_connect_system"
        THEN {"ConnectMidiDevice", "DisconnectMidiDevice"}
    ELSE {}

\* A system whose queries are empty returns without any effect, so the steps
\* of a frame are the systems that have something to look at in world w with
\* queue q.  Triggers are only inserted between frames.
HasWork(name, w, q) ==
    IF TriggersOf(name) # {}
        THEN \E e \in Entities : TriggersOf(name) \cap w[e].added # {}
    ELSE IF name = "apply_deferred" THEN q # <<>>
    ELSE IF name = "audio_cleanup_system"
        THEN \E e \in Entities : w[e].AudioPlaybackState = "Playing"
    ELSE IF name = "plugin_crash_detect_system"
        THEN \E e \in Entities : "PluginEmitter" \in w[e].comps
    ELSE IF name = "plugin_editor_idle_system"
        THEN \E e \in Entities : {"PluginEmitter", "PluginEditorOpen"} \subseteq w[e].comps
    ELSE IF name = "export_poll_system"
        THEN \E e \in Entities : w[e].ExportInProgress # "None"
    ELSE IF name = "audio_parameter_sync_system"
        THEN \E e \in Entities : "AudioVolume" \in w[e].changed
    ELSE IF name = "spatial_audio_sync_system"
        THEN \E e \in Entities : w[e].AudioEmitter # 0 /\ "SpatialAudio" \in w[e].comps
    ELSE IF name = "time_stretch_sync_system"
        THEN \E e \in Entities : "TimeStretch" \in w[e].changed
    ELSE TRUE

\* The next step of the frame after position p of schedule sch.
Advance(sch, p, w, q) ==
    CHOOSE i \in (p + 1)..Len(sch) :
        /\ HasWork(sch[i], w, q)
        /\ \A j \in (p + 1)..(i - 1) : ~HasWork(sch[j], w, q)

\* ------------------------------------------------------------------ queries
HasEngine == engine # "none"

\* Query<(Entity, &K), Added<K>>: entities whose K was inserted since the
\* system last ran.
AddedQuery(k) == {e \in Entities : ent[e].alive /\ k \in ent[e].intents /\ k \in ent[e].added}

\* After a system ran, nothing it could have seen counts as added any more.
SeenBy(w, ks) == [e \in Entities |-> [w[e] EXCEPT !.added = @ \ ks]]

\* Position of e among the entities of S, in iteration order.
Rank(e, S) == Cardinality({x \in S : x < e})

NodeOf(e, S) == nextNode + Rank(e, S)

Loaded(a) == assets[a]

\* The asset collection a trigger's `source` handle points into.
AssetOf(k) ==
    IF k = "PlayAudio" THEN "audio"
    ELSE IF k = "PlaySoundFont" THEN "soundfont"
    ELSE IF k \in {"PlayNeuralSynth", "PlayNeuralEffect"} THEN "neural"
    ELSE "none"

TypeOK ==
    /\ engine \in {"none", "plain", "midi"}
    /\ pc \in 0..Len(Schedule)
    /\ order \in {"A", "B", "S", "T", "P", "Q", "M", "R", "U", "E", "F", "V", "W", "X", "N", "Y", "Z", "G", "H", "I", "C", "D"}
    /\ nextNode \in 1..(Cardinality(NodeIds) + 1)
    /\ inserts \in 0..Cardinality(NodeIds)
    /\ \A a \in AssetTypes : assets[a] \in BOOLEAN
    /\ eng.recording \subseteq Channels
    /\ \A e \in Entities :
        /\ ent[e].added \subseteq ent[e].intents
        /\ ent[e].intents \subseteq Kinds
        /\ ent[e].comps \subseteq MarkerComps
        /\ ent[e].AudioEmitter \in {0} \cup NodeIds
        /\ ent[e].AudioPlaybackState \in {"None", "Stopped", "Playing", "Finished"}
        /\ ent[e].ExportInProgress \in {"None", "Pending", "Running", "Complete", "Failed"}
        /\ ~ent[e].alive => ent[e] = BareEntity(FALSE)

\* The graph-mutation lock when no closure runs: the system that holds it
\* (by), the node its closure works on and the calls the closure has still
\* to make.
NoLock == [by |-> "", node |-> 0, todo |-> << >>]

\* A MIDI routing table without entries: per channel and for the fallback
\* slot the unit the slot routes to, 0 = no entry.
EmptyTable == [channel |-> [c \in MidiChannels |-> 0], fallback |-> 0]

\* What the engine publishes for the control plane to read: its transport,
\* the master amplitude (peak left / right, rms left / right), the output
\* device (current_output_device_name "" = Err), the content bounds, the live
\* analysis results and the sampler's input side.
NewPublished ==
    [transport |-> [current_beat |-> 0, tempo |-> 120, is_playing |-> FALSE,
                    is_paused |-> TRUE, is_recording |-> FALSE,
                    is_loop_enabled |-> FALSE, loop_range |-> << >>,
                    time_signature |-> << 4, 4 >>],
     amplitude |-> << 0, 0, 0, 0 >>,
     is_running |-> TRUE, channels |-> 2,
     current_output_device_name |-> "a", output_devices |-> << "a" >>,
     content_end_beat |-> 0, content_duration |-> 0,
     analysis |-> [live_pitch |-> 0, live_transients |-> 0, live_waveform |-> 0],
     input_peak_level |-> 0, input_devices |-> << >>]

\* The resources init_resource creates: the Default of each mirrored type.
DefaultMirrors ==
    [TransportState |->
        [tempo |-> 120, beat |-> 0, is_playing |-> FALSE, is_paused |-> TRUE,
         is_recording |-> FALSE, is_looping |-> FALSE, loop_start |-> 0,
         loop_end |-> 16, time_sig_numerator |-> 4, time_sig_denominator |-> 4],
     MasterMeterLevels |->
        [peak_left |-> 0, peak_right |-> 0, rms_left |-> 0, rms_right |-> 0],
     AudioDeviceState |->
        [output_devices |-> << >>, current_device |-> "", is_running |-> FALSE,
         channels |-> 2],
     ContentBounds |-> [end_beat |-> 0, duration_seconds |-> 0],
     LiveAnalysisData |-> [pitch |-> 0, transients |-> 0, waveform |-> 0],
     AudioInputState |-> [peak_level |-> 0, devices |-> << >>]]

\* The engine right after TuttiEngine::builder().build().  routing is the
\* committed routing table, working the one a midi_routing closure edits,
\* rebuild the position inside that closure (0 = outside) and observed the
\* table the audio thread read last.
NewEngine ==
    [recording |-> {}, origin |-> 0, lock |-> NoLock, live_analysis |-> FALSE,
     input_channel |-> << >>, pushed |-> << >>,
     input_device |-> -1, input_gain |-> 1, input_monitoring |-> FALSE,
     midi_queued |-> 0, midi2_pushed |-> 0, midi_device |-> FALSE,
     routing |-> EmptyTable, working |-> EmptyTable, rebuild |-> 0,
     observed |-> EmptyTable, published |-> NewPublished]

\* RemovedComponents<T>: per receiver kind the unread removal events of the
\* older and of the newer buffer.
NoRemovals == [k \in ReceiverKinds |-> << 0, 0 >>]

Init ==
    /\ engine \in {"none", "plain", "midi"}
    /\ ent = [e \in Entities |-> BareEntity(TRUE)]
    /\ net = [n \in NodeIds |-> NoNode]
    /\ nextNode = 1
    /\ eng = NewEngine
    /\ res = [is_live |-> FALSE, connected |-> FALSE, events |-> << >>,
              midi_input |-> << >>, last_check |-> FALSE,
              removed |-> NoRemovals, mirrors |-> DefaultMirrors]
    /\ assets = [a \in AssetTypes |-> FALSE]
    /\ cmds = <<>>
    /\ pc = 0
    /\ order = "A"
    /\ inserts = 0
    /\ released = [n \in NodeIds |-> 0]

\* The sampler-only build has no MIDI subsystem.
InitSampler == Init /\ engine # "midi"

\* An application whose engine was built, without MIDI, and one whose
\* TuttiEngine::builder().build() failed.
InitPlain == Init /\ engine = "plain"

InitNone == Init /\ engine = "none"

\* ------------------------------------------------------------------ application
\* What the application does between two frames.

\* commands.entity(e).insert(K {..}): the trigger appears on e with the
\* payload fields p and the companion components cs.
InsertIntent(e, k, p, cs) ==
    /\ Idle /\ ent[e].alive /\ k \notin ent[e].intents
    /\ ent' = [ent EXCEPT ![e] =
                 [f \in DOMAIN ent[e] |->
                    IF f = "intents" THEN ent[e].intents \cup {k}
                    ELSE IF f = "added" THEN ent[e].added \cup {k}
                    ELSE IF f = "comps" THEN ent[e].comps \cup cs
                    ELSE IF f \in DOMAIN p THEN p[f]
                    ELSE ent[e][f]]]
    /\ inserts' = inserts + 1
    /\ UNCHANGED <<engine, net, nextNode, eng, res, assets, cmds, pc, order, released>>

\* PlayAudio::once(h) / ::looping(h), .despawn_on_finish(), .time_stretch(..):
\* the trigger with its payload, and the TimeStretch companion.
InsertPlayAudio(e, lp, ad, ts) ==
    InsertIntent(e, "PlayAudio",
                 [looping |-> lp, auto_despawn |-> ad,
                  TimeStretch |-> IF ts THEN [stretch_factor |-> 1, pitch_cents |-> 0]
                                  ELSE ent[e].TimeStretch],
                 IF ts THEN {"TimeStretch"} ELSE {})

\* The volumes (in hundredths) and the TimeStretch values the application
\* uses; a sampler's own gain is Unity.
Volumes == {0, 2}

Stretches ==
    {[stretch_factor |-> 2, pitch_cents |-> 0],
     [stretch_factor |-> 1, pitch_cents |-> 100]}

\* What the application spawns a sample with.
SpawnVolume == CHOOSE v \in Volumes : v # 0

SpawnStretch == CHOOSE ts \in Stretches : ts.pitch_cents = 0

\* commands.entity(e).insert((PlayAudio::once(h) / ::looping(h), TimeStretch
\* {..}, AudioVolume(v))): the trigger together with a TimeStretch (unless ts
\* is NoStretch) and an AudioVolume (unless v is NoVolume).
PlayAudioWith(e, lp, ts, v) ==
    InsertIntent(e, "PlayAudio",
                 [looping |-> lp, auto_despawn |-> FALSE,
                  TimeStretch |-> IF ts # NoStretch THEN ts ELSE ent[e].TimeStretch,
                  AudioVolume |-> IF v # NoVolume THEN v ELSE ent[e].AudioVolume,
                  changed |-> ent[e].changed
                              \cup (IF ts # NoStretch THEN {"TimeStretch"} ELSE {})
                              \cup (IF v # NoVolume THEN {"AudioVolume"} ELSE {})],
                 IF ts # NoStretch THEN {"TimeStretch"} ELSE {})

\* What the application of the spatial build uses: the three attenuation
\* models with the default distances and with a short range, emitters on the
\* axes around the origin, and a listener at the origin.
AttenuationModels == {"InverseDistance", "Linear", "Exponential"}

SpatialAudios ==
    {[panner_node_id |-> 0, attenuation |-> m, ref_distance |-> 1, max_distance |-> 100] :
        m \in AttenuationModels}
    \cup {[panner_node_id |-> 0, attenuation |-> m, ref_distance |-> 2, max_distance |-> 10] :
        m \in AttenuationModels}

Positions ==
    {<< 10, 0, 0 >>, << 0, 0, -2 >>, << 0, 5, 0 >>, << -100, 0, 0 >>, << 0, 0, 120 >>}

Facings == {1, -1}

\* What the application spawns an emitter with: SpatialAudio::default().
SpawnSpatial ==
    [panner_node_id |-> 0, attenuation |-> "InverseDistance", ref_distance |-> 1,
     max_distance |-> 100]

SpawnPosition == << 10, 0, 0 >>

\* Where the application moves an emitter to: behind the listener.
Moves == {<< 0, 0, 2 >>}

\* commands.entity(e).insert((PlayAudio::once(h), SpatialAudio {..},
\* Transform::from_translation(p), AudioVolume(v))), AudioVolume unless v is
\* NoVolume.
PlayAudioAt(e, sp, p, v) ==
    InsertIntent(e, "PlayAudio",
                 [looping |-> FALSE, auto_despawn |-> FALSE,
                  SpatialAudio |-> sp,
                  GlobalTransform |-> [translation |-> p, facing |-> 1],
                  AudioVolume |-> IF v # NoVolume THEN v ELSE ent[e].AudioVolume,
                  changed |-> ent[e].changed
                              \cup (IF v # NoVolume THEN {"AudioVolume"} ELSE {})],
                 {"SpatialAudio"})

\* commands.entity(e).insert((AudioListener, Transform {..})) at the origin.
InsertListener(e, f) ==
    /\ Idle /\ ent[e].alive /\ "AudioListener" \notin ent[e].comps
    /\ ent' = [ent EXCEPT ![e].comps = @ \cup {"AudioListener"},
                          ![e].GlobalTransform = [translation |-> << 0, 0, 0 >>,
                                                  facing |-> f]]
    /\ inserts' = inserts + 1
    /\ UNCHANGED <<engine, net, nextNode, eng, res, assets, cmds, pc, order, released>>

\* commands.entity(e).insert(AudioListener) on an entity that is placed
\* already: the marker alone, the transform stays.
MarkListener(e) ==
    /\ Idle /\ ent[e].alive /\ "AudioListener" \notin ent[e].comps
    /\ "SpatialAudio" \in ent[e].comps
    /\ ent' = [ent EXCEPT ![e].comps = @ \cup {"AudioListener"}]
    /\ inserts' = inserts + 1
    /\ UNCHANGED <<engine, net, nextNode, eng, res, assets, cmds, pc, order, released>>

\* transform.translation = p on an emitter.
MoveTo(e, p) ==
    /\ Idle /\ ent[e].alive /\ "SpatialAudio" \in ent[e].comps
    /\ ent[e].GlobalTransform.translation # p
    /\ ent' = [ent EXCEPT ![e].GlobalTransform.translation = p]
    /\ inserts' = inserts + 1
    /\ UNCHANGED <<engine, net, nextNode, eng, res, assets, cmds, pc, order, released>>

\* volume.0 = v on the AudioVolume of e.
SetVolume(e, v) ==
    /\ Idle /\ ent[e].alive /\ ent[e].AudioVolume # NoVolume
    /\ ent' = [ent EXCEPT ![e].AudioVolume = v, ![e].changed = @ \cup {"AudioVolume"}]
    /\ inserts' = inserts + 1
    /\ UNCHANGED <<engine, net, nextNode, eng, res, assets, cmds, pc, order, released>>

\* The application writes the fields of the TimeStretch of e.
SetStretch(e, ts) ==
    /\ Idle /\ ent[e].alive /\ "TimeStretch" \in ent[e].comps
    /\ ent' = [ent EXCEPT ![e].TimeStretch = ts, ![e].changed = @ \cup {"TimeStretch"}]
    /\ inserts' = inserts + 1
    /\ UNCHANGED <<engine, net, nextNode, eng, res, assets, cmds, pc, order, released>>

\* LoadPlugin::new(path): the trigger with the path's extension.
InsertLoadPlugin(e, x) == InsertIntent(e, "LoadPlugin", [ext |-> x], {})

\* StartRecording::new(channel_index, source).mode(mode)
InsertStartRecording(e, r) == InsertIntent(e, "StartRecording", [start |-> r], {})

\* StopRecording { channel_index }
InsertStopRecording(e, ch) == InsertIntent(e, "StopRecording", [stop_channel |-> ch], {})

\* EnableAudioInput { device_index, monitoring, gain }
InsertEnableAudioInput(e, i) == InsertIntent(e, "EnableAudioInput", [input |-> i], {})

\* The triggers whose payload no system of the model branches on.
Plain ==
    Kinds \ {"PlayAudio", "LoadPlugin", "StartRecording", "StopRecording",
             "EnableAudioInput"}

InsertTrigger(e, k) ==
    /\ k \in Plain
    /\ InsertIntent(e, k, << >>, {})

\* The asset server finishes decoding an asset some trigger's handle asked
\* for: Assets<T>::get returns Some.
AssetLoaded(a) ==
    /\ Idle /\ ~assets[a]
    /\ \E e \in Entities : \E k \in ent[e].intents : AssetOf(k) = a
    /\ assets' = [assets EXCEPT ![a] = TRUE]
    /\ UNCHANGED <<engine, ent, net, nextNode, eng, res, cmds, pc, order, inserts, released>>

\* The emitter's node is no longer referenced by an AudioEmitter of e.
Release(e) ==
    released' = [n \in NodeIds |->
                   IF n = ent[e].AudioEmitter /\ Contains(net, n) /\ released[n] = 0
                   THEN 1 ELSE released[n]]

\* The user removes the AudioEmitter component.
UserRemoveEmitter(e) ==
    /\ Idle /\ ent[e].alive /\ ent[e].AudioEmitter # 0
    /\ ent' = [ent EXCEPT ![e].AudioEmitter = 0]
    /\ Release(e)
    /\ UNCHANGED <<engine, net, nextNode, eng, res, assets, cmds, pc, order, inserts>>

\* The user despawns the entity.
UserDespawn(e) ==
    /\ Idle /\ ent[e].alive
    /\ ent' = [ent EXCEPT ![e] = BareEntity(FALSE)]
    /\ Release(e)
    /\ UNCHANGED <<engine, net, nextNode, eng, res, assets, cmds, pc, order, inserts>>

\* The application opens the editor of a loaded plugin and marks the entity
\* (handle.open_editor(), then insert(PluginEditorOpen)), or closes it again.
OpenEditor(e) ==
    /\ Idle /\ ent[e].alive
    /\ "PluginEmitter" \in ent[e].comps /\ "PluginEditorOpen" \notin ent[e].comps
    /\ ent' = [ent EXCEPT ![e].comps = @ \cup {"PluginEditorOpen"}]
    /\ UNCHANGED <<engine, net, nextNode, eng, res, assets, cmds, pc, order, inserts, released>>

CloseEditor(e) ==
    /\ Idle /\ ent[e].alive /\ "PluginEditorOpen" \in ent[e].comps
    /\ ent' = [ent EXCEPT ![e].comps = @ \ {"PluginEditorOpen"}]
    /\ UNCHANGED <<engine, net, nextNode, eng, res, assets, cmds, pc, order, inserts, released>>

\* The application binds a node to MIDI input: insert(MidiReceiver { node_id,
\* channel }) or a write through Mut<MidiReceiver>; both mark the component
\* as changed.
SetReceiver(e, r) ==
    /\ Idle /\ ent[e].alive
    /\ ent' = [ent EXCEPT ![e].MidiReceiver = r, ![e].changed = @ \cup {"MidiReceiver"}]
    /\ inserts' = inserts + 1
    /\ UNCHANGED <<engine, net, nextNode, eng, res, assets, cmds, pc, order, released>>

\* remove::<MidiReceiver>(): the component is gone and a removal event is sent.
RemoveReceiver(e) ==
    /\ Idle /\ ent[e].alive /\ ent[e].MidiReceiver # NoReceiver
    /\ ent' = [ent EXCEPT ![e].MidiReceiver = NoReceiver,
                          ![e].changed = @ \ {"MidiReceiver"}]
    /\ res' = [res EXCEPT !.removed["MidiReceiver"][2] = @ + 1]
    /\ inserts' = inserts + 1
    /\ UNCHANGED <<engine, net, nextNode, eng, assets, cmds, pc, order, released>>

\* insert(MpeReceiver { node_id })
SetMpeReceiver(e, n) ==
    /\ Idle /\ ent[e].alive
    /\ ent' = [ent EXCEPT ![e].MpeReceiver = n, ![e].changed = @ \cup {"MpeReceiver"}]
    /\ inserts' = inserts + 1
    /\ UNCHANGED <<engine, net, nextNode, eng, res, assets, cmds, pc, order, released>>

\* remove::<MpeReceiver>()
RemoveMpeReceiver(e) ==
    /\ Idle /\ ent[e].alive /\ ent[e].MpeReceiver # 0
    /\ ent' = [ent EXCEPT ![e].MpeReceiver = 0, ![e].changed = @ \ {"MpeReceiver"}]
    /\ res' = [res EXCEPT !.removed["MpeReceiver"][2] = @ + 1]
    /\ inserts' = inserts + 1
    /\ UNCHANGED <<engine, net, nextNode, eng, assets, cmds, pc, order, released>>

\* ------------------------------------------------------------------ other threads
\* The audio thread looks a MIDI event's target up: it reads the committed
\* routing table, at any moment.
AudioThreadReads ==
    /\ HasEngine /\ eng.observed # eng.routing
    /\ eng' = [eng EXCEPT !.observed = eng.routing]
    /\ UNCHANGED <<engine, ent, net, nextNode, res, assets, cmds, pc, order, inserts, released>>

\* A non-looping sampler reaches the end of its wave: is_playing() turns false.
\* Only audio_cleanup_system reads the flag, so a stop at any other point of a
\* frame is the same as this stop right before that system or after the frame.
SamplerStops(n) ==
    /\ Idle \/ AtSystem("audio_cleanup_system")
    /\ Contains(net, n)
    /\ net[n].kind \in {"SamplerUnit", "TimeStretchUnit"}
    /\ net[n].playing /\ ~net[n].looping
    /\ net' = [net EXCEPT ![n].playing = FALSE]
    /\ UNCHANGED <<engine, ent, nextNode, eng, res, assets, cmds, pc, order, inserts, released>>

\* The hosted plugin crashes: PluginHandle::is_crashed() turns true.  Only
\* plugin_crash_detect_system reads the flag.
PluginCrashes(e) ==
    /\ Idle \/ AtSystem("plugin_crash_detect_system")
    /\ ent[e].alive /\ "PluginEmitter" \in ent[e].comps /\ ~ent[e].is_crashed
    /\ ent' = [ent EXCEPT ![e].is_crashed = TRUE]
    /\ UNCHANGED <<engine, net, nextNode, eng, res, assets, cmds, pc, order, inserts, released>>

\* The export worker moves the ExportHandle of e on: from Pending to Running,
\* from either to Complete or to Failed(r).  Only export_poll_system reads the
\* status.
ExportProgresses(e, s, r) ==
    /\ Idle
    /\ ent[e].alive
    /\ \/ ent[e].ExportInProgress = "Pending" /\ s \in {"Running", "Complete", "Failed"}
       \/ ent[e].ExportInProgress = "Running" /\ s \in {"Complete", "Failed"}
    /\ (r # "") = (s = "Failed")
    /\ ent' = [ent EXCEPT ![e].ExportInProgress = s, ![e].reason = r]
    /\ UNCHANGED <<engine, net, nextNode, eng, res, assets, cmds, pc, order, inserts, released>>

\* ------------------------------------------------------------------ frame
\* The messages of the frame before are gone when the next one starts (they
\* live for two updates; a reader that runs every frame sees each once).
BeginFrame(orders) ==
    /\ Idle
    /\ order' \in orders
    /\ pc' = Advance(ScheduleOf(order'), 0, ent, cmds)
    /\ res' = [res EXCEPT !.events = << >>]
    /\ UNCHANGED <<engine, ent, net, nextNode, eng, assets, cmds, inserts, released>>

\* The sync point the schedule inserts after audio_playback_system.
ApplyDeferred ==
    /\ AtSystem("apply_deferred")
    /\ ent' = ApplyAll(ent, cmds)
    /\ cmds' = <<>>
    /\ pc' = Advance(Schedule, pc, ent', cmds')
    /\ UNCHANGED <<engine, net, nextNode, eng, res, assets, order, inserts, released>>

\* The end of the Update schedule applies what is still queued; the removal
\* events of the frame before are dropped (they live for two updates).
EndOfFrame ==
    /\ AtSystem("end_of_frame")
    /\ ent' = ApplyAll(ent, cmds)
    /\ cmds' = <<>>
    /\ pc' = 0
    /\ order' = "A"
    /\ released' = [n \in NodeIds |->
                      IF released[n] >= 1 /\ Contains(net, n) THEN 2 ELSE released[n]]
    /\ res' = [res EXCEPT !.removed = [k \in ReceiverKinds |-> << @[k][2], 0 >>]]
    /\ UNCHANGED <<engine, net, nextNode, eng, assets, inserts>>

\* ------------------------------------------------------------------ dispatch
\* The bookkeeping of a system that executed the triggers of `done` (pairs of
\* entity and kind), those of `failed` with a logged error.
Executed(w, done, failed) ==
    [e \in Entities |->
        [w[e] EXCEPT !.executed = [k \in Kinds |->
                                     IF <<e, k>> \in done /\ @[k] < 2 THEN @[k] + 1 ELSE @[k]],
                     !.failed = @ \cup {k \in Kinds : <<e, k>> \in failed}]]

\* What every node-creating system does once it has decided, per entity of its
\* Added query, to add a node (made), to report a failure (failed) or to leave
\* the trigger alone: net.add under graph_mut hands out the next NodeIds in
\* iteration order, the entity commands are queued, and the system's change
\* tick moves on.
Dispatch(k, made, failed, nodeOf, cmdsOf) ==
    /\ net' = [n \in NodeIds |->
                 IF \E e \in made : NodeOf(e, made) = n
                 THEN LET e == CHOOSE x \in made : NodeOf(x, made) = n
                      IN [nodeOf[e] EXCEPT !.owner = e]
                 ELSE net[n]]
    /\ nextNode' = nextNode + Cardinality(made)
    /\ cmds' = cmds \o Flatten(cmdsOf, NumEntities)
    /\ ent' = Executed(SeenBy(ent, {k}),
                       {<<e, k>> : e \in made \cup failed}, {<<e, k>> : e \in failed})
    /\ pc' = Advance(Schedule, pc, ent', cmds')
    /\ UNCHANGED <<engine, eng, res, assets, order, inserts, released>>

\* What every engine-calling system does besides its calls: the entity
\* commands are queued and the system's change tick moves on.
Call(ks, done, failed, cmdsOf) ==
    /\ cmds' = cmds \o Flatten(cmdsOf, NumEntities)
    /\ ent' = Executed(SeenBy(ent, ks), done, failed)
    /\ pc' = Advance(Schedule, pc, ent', cmds')
    /\ UNCHANGED <<engine, net, nextNode, assets, order, inserts, released>>

\* `let Some(engine) = engine else { return }`: the system ran, saw its
\* Added queries, and did nothing.
NoEngine(ks) ==
    /\ ent' = SeenBy(ent, ks)
    /\ pc' = Advance(Schedule, pc, ent', cmds)
    /\ UNCHANGED <<engine, net, nextNode, eng, res, assets, cmds, order, inserts, released>>

Node(kind, lp) ==
    [kind |-> kind, looping |-> lp, playing |-> TRUE, owner |-> 0,
     gain |-> Unity, stretch_factor |-> 0, pitch_cents |-> 0,
     source |-> 0, piped |-> FALSE, azimuth |-> 0, elevation |-> 0, format |-> ""]

\* A dispatcher that would not wait for the asset.
ReadyOrNot(k, a) == AddedQuery(k)

\* The entities of the Added query whose asset Assets::get finds.
Ready(k, a) == {e \in AddedQuery(k) : Loaded(a)}

\* A PlayAudio dispatch that would keep the AudioEmitter an entity already has.
PlayAudioKeepEmitter(e, n) ==
    << Remove(e, "PlayAudio"),
       InsertEmitter(e, IF ent[e].AudioEmitter # 0 THEN ent[e].AudioEmitter ELSE n),
       InsertState(e, "Playing") >>

\* The unit audio_playback_system adds for e: the sampler, wrapped in a
\* TimeStretchUnit when the entity carries TimeStretch.
\* A dispatch that would leave the stretch unit's atomics at their defaults.
PlayAudioUnstretched(e) ==
    IF "TimeStretch" \in ent[e].comps
    THEN [Node("TimeStretchUnit", ent[e].looping) EXCEPT !.stretch_factor = 1]
    ELSE Node("SamplerUnit", ent[e].looping)

\* set_stretch_factor / set_pitch_cents store TimeStretch's values in the
\* unit's two atomics before it is added.
PlayAudioNode(e) ==
    IF "TimeStretch" \in ent[e].comps
    THEN [Node("TimeStretchUnit", ent[e].looping) EXCEPT
            !.stretch_factor = ent[e].TimeStretch.stretch_factor,
            !.pitch_cents = ent[e].TimeStretch.pitch_cents]
    ELSE Node("SamplerUnit", ent[e].looping)

\* The TimeStretchControl holds the Arcs of the unit added as node n.
PlayAudioCmds(e, n) ==
    << Remove(e, "PlayAudio"), InsertEmitter(e, n), InsertState(e, "Playing") >>
    \o (IF "TimeStretch" \in ent[e].comps THEN << InsertControl(e, n) >> ELSE << >>)
    \o (IF ent[e].auto_despawn THEN << Insert(e, "DespawnOnFinish") >> ELSE << >>)

audio_playback_system ==
    /\ AtSystem("audio_playback_system")
    /\ IF ~HasEngine THEN NoEngine({"PlayAudio"})
       ELSE LET made == Ready("PlayAudio", "audio") IN
            Dispatch("PlayAudio", made, {},
                     [e \in Entities |-> PlayAudioNode(e)],
                     [e \in Entities |->
                        IF e \in made THEN PlayAudioCmds(e, NodeOf(e, made)) ELSE << >>])

\* A dispatch that would leave the trigger on the entity.
EmitterKeepTrigger(e, k, n) == << InsertEmitter(e, n) >>

\* A failed dispatch that would leave the trigger on the entity.
FailureKeepTrigger(e, k) == << >>

\* The commands that replace a trigger by its AudioEmitter.
EmitterCmds(e, k, n) == << Remove(e, k), InsertEmitter(e, n) >>

\* The commands of a system whose build or engine call failed.
FailureCmds(e, k) == << Remove(e, k) >>

soundfont_playback_system ==
    /\ AtSystem("soundfont_playback_system")
    /\ IF ~HasEngine THEN NoEngine({"PlaySoundFont"})
       ELSE LET made == Ready("PlaySoundFont", "soundfont") IN
            Dispatch("PlaySoundFont", made, {},
                     [e \in Entities |-> Node("SoundFontUnit", FALSE)],
                     [e \in Entities |->
                        IF e \in made THEN EmitterCmds(e, "PlaySoundFont", NodeOf(e, made))
                        ELSE << >>])

\* A neural dispatcher: engine.neural_synth / neural_effect (name).build()
\* succeeds for the entities of ok and fails for the other ready ones.
NeuralDispatch(k, kind, ok) ==
    LET ready == Ready(k, "neural")
        made == ready \cap ok
        failed == ready \ ok
    IN Dispatch(k, made, failed,
                [e \in Entities |-> Node(kind, FALSE)],
                [e \in Entities |->
                   IF e \in made THEN EmitterCmds(e, k, NodeOf(e, made))
                   ELSE IF e \in failed THEN FailureCmds(e, k)
                   ELSE << >>])

neural_synth_playback_system ==
    /\ AtSystem("neural_synth_playback_system")
    /\ IF ~HasEngine THEN NoEngine({"PlayNeuralSynth"})
       ELSE \E ok \in SUBSET Ready("PlayNeuralSynth", "neural") :
                NeuralDispatch("PlayNeuralSynth", "NeuralSynthNode", ok)

neural_effect_playback_system ==
    /\ AtSystem("neural_effect_playback_system")
    /\ IF ~HasEngine THEN NoEngine({"PlayNeuralEffect"})
       ELSE \E ok \in SUBSET Ready("PlayNeuralEffect", "neural") :
                NeuralDispatch("PlayNeuralEffect", "NeuralEffectNode", ok)

\* str::to_lowercase on the extensions the model uses.
ToLowercase(x) == IF x = "VST3" THEN "vst3" ELSE x

\* The builder plugin_load_system picks for an extension; "none" is the
\* `_ =>` arm.
\* A match that would take .vst for a VST3 bundle.
FormatVstAsVst3(x) ==
    IF x \in {"vst3", "VST3", "vst"} THEN "VST3"
    ELSE IF x = "clap" THEN "CLAP"
    ELSE IF x \in {"dll", "so"} THEN "VST2"
    ELSE "none"

\* engine.vst3(path) / engine.clap(path) / engine.vst2(path) by the lowercased
\* extension; "none" is the arm that gives up.
PluginFormat(x) ==
    LET l == ToLowercase(x) IN
    IF l = "vst3" THEN "VST3"
    ELSE IF l = "clap" THEN "CLAP"
    ELSE IF l \in {"dll", "so", "vst"} THEN "VST2"
    ELSE "none"

PluginCmds(e, n) ==
    << Remove(e, "LoadPlugin"), InsertEmitter(e, n), Insert(e, "PluginEmitter") >>

plugin_load_system ==
    /\ AtSystem("plugin_load_system")
    /\ IF ~HasEngine THEN NoEngine({"LoadPlugin"})
       ELSE LET todo == AddedQuery("LoadPlugin")
                known == {e \in todo : PluginFormat(ent[e].ext) # "none"}
            IN \E ok \in SUBSET known :
                 Dispatch("LoadPlugin", ok, todo \ ok,
                          [e \in Entities |->
                             [Node("Plugin", FALSE) EXCEPT
                                 !.format = PluginFormat(ent[e].ext)]],
                          [e \in Entities |->
                             IF e \in ok THEN PluginCmds(e, NodeOf(e, ok))
                             ELSE IF e \in todo THEN FailureCmds(e, "LoadPlugin")
                             ELSE << >>])

\* The three DSP dispatchers build their unit without an asset or a fallible
\* builder.
DspDispatch(k, kind) ==
    LET made == AddedQuery(k) IN
    Dispatch(k, made, {},
             [e \in Entities |-> Node(kind, FALSE)],
             [e \in Entities |->
                IF e \in made THEN EmitterCmds(e, k, NodeOf(e, made)) ELSE << >>])

dsp_compressor_system ==
    /\ AtSystem("dsp_compressor_system")
    /\ IF ~HasEngine THEN NoEngine({"AddCompressor"})
       ELSE DspDispatch("AddCompressor", "SidechainCompressor")

dsp_gate_system ==
    /\ AtSystem("dsp_gate_system")
    /\ IF ~HasEngine THEN NoEngine({"AddGate"})
       ELSE DspDispatch("AddGate", "SidechainGate")

dsp_lfo_system ==
    /\ AtSystem("dsp_lfo_system")
    /\ IF ~HasEngine THEN NoEngine({"AddLfo"})
       ELSE DspDispatch("AddLfo", "LfoNode")

LaneCmds(e, n) == << Remove(e, "AddAutomationLane"), InsertLane(e, n) >>

automation_lane_system ==
    /\ AtSystem("automation_lane_system")
    /\ IF ~HasEngine THEN NoEngine({"AddAutomationLane"})
       ELSE LET made == AddedQuery("AddAutomationLane") IN
            Dispatch("AddAutomationLane", made, {},
                     [e \in Entities |-> Node("AutomationLane", FALSE)],
                     [e \in Entities |->
                        IF e \in made THEN LaneCmds(e, NodeOf(e, made)) ELSE << >>])

\* ------------------------------------------------------------------ engine calls
Pairs(S, k) == {<<e, k>> : e \in S}

\* The last entity of S in iteration order.
Last(S) == CHOOSE x \in S : \A y \in S : y <= x

\* A start that would forget the mode the trigger asked for.
StartDefaultMode(e) ==
    << Remove(e, "StartRecording"),
       InsertActive(e, [ent[e].start EXCEPT !.mode = "Replace"]) >>

StartCmds(e) == << Remove(e, "StartRecording"), InsertActive(e, ent[e].start) >>

\* sampler.start_recording succeeds for the entities of ok; every call is
\* handed transport.beat of the TransportState resource as the origin
\* (eng.origin: the origin of the latest call, 0 before the first).
recording_start_system ==
    /\ AtSystem("recording_start_system")
    /\ IF ~HasEngine THEN NoEngine({"StartRecording"})
       ELSE LET todo == AddedQuery("StartRecording") IN
            \E ok \in SUBSET todo :
                /\ eng' = [eng EXCEPT
                             !.recording = @ \cup {ent[e].start.channel_index : e \in ok},
                             !.origin = IF todo # {}
                                        THEN res.mirrors.TransportState.beat ELSE @]
                /\ res' = res
                /\ Call({"StartRecording"}, Pairs(todo, "StartRecording"),
                        Pairs(todo \ ok, "StartRecording"),
                        [e \in Entities |->
                           IF e \in ok THEN StartCmds(e)
                           ELSE IF e \in todo THEN FailureCmds(e, "StartRecording")
                           ELSE << >>])

\* A stop that would end the RecordingActive of every channel.
StopEveryChannel(e) ==
    Flatten([a \in Entities |->
               IF ent[a].alive /\ ent[a].RecordingActive.channel_index # -1
               THEN << Remove(a, "RecordingActive") >> ELSE << >>],
            NumEntities)
    \o << Remove(e, "StopRecording"), Insert(e, "RecordingResult") >>

\* The commands for a StopRecording of e that returned data: every entity
\* whose RecordingActive is on the stopped channel loses it, and e trades the
\* trigger for the RecordingResult.
StopCmds(e) ==
    Flatten([a \in Entities |->
               IF /\ ent[a].alive
                  /\ ent[a].RecordingActive.channel_index # -1
                  /\ ent[a].RecordingActive.channel_index = ent[e].stop_channel
               THEN << Remove(a, "RecordingActive") >> ELSE << >>],
            NumEntities)
    \o << Remove(e, "StopRecording"), Insert(e, "RecordingResult") >>

\* sampler.stop_recording returns data for the entities of ok.
recording_stop_system ==
    /\ AtSystem("recording_stop_system")
    /\ IF ~HasEngine THEN NoEngine({"StopRecording"})
       ELSE LET todo == AddedQuery("StopRecording") IN
            \E ok \in SUBSET todo :
                /\ eng' = [eng EXCEPT !.recording =
                             @ \ {ent[e].stop_channel : e \in ok}]
                /\ res' = res
                /\ Call({"StopRecording"}, Pairs(todo, "StopRecording"),
                        Pairs(todo \ ok, "StopRecording"),
                        [e \in Entities |->
                           IF e \in ok THEN StopCmds(e)
                           ELSE IF e \in todo THEN FailureCmds(e, "StopRecording")
                           ELSE << >>])

\* A start that would report the export as complete right away.
ExportCompleteAtOnce(e) ==
    << Remove(e, "StartExport"), InsertExport(e, "Pending"), Insert(e, "ExportComplete") >>

ExportCmds(e) == << Remove(e, "StartExport"), InsertExport(e, "Pending") >>

export_start_system ==
    /\ AtSystem("export_start_system")
    /\ IF ~HasEngine THEN NoEngine({"StartExport"})
       ELSE LET todo == AddedQuery("StartExport") IN
            /\ UNCHANGED <<eng, res>>
            /\ Call({"StartExport"}, Pairs(todo, "StartExport"), {},
                    [e \in Entities |-> IF e \in todo THEN ExportCmds(e) ELSE << >>])

\* A poll that would drop the reason of a failure.
PollDropsReason(e) ==
    IF ~ent[e].alive THEN << >>
    ELSE IF ent[e].ExportInProgress = "Complete"
        THEN << Remove(e, "ExportInProgress"), Insert(e, "ExportComplete") >>
    ELSE IF ent[e].ExportInProgress = "Failed"
        THEN << Remove(e, "ExportInProgress"), InsertFailed(e, "") >>
    ELSE << >>

\* What export_poll_system queues for the status of e's handle.
PollCmds(e) ==
    IF ~ent[e].alive THEN << >>
    ELSE IF ent[e].ExportInProgress = "Complete"
        THEN << Remove(e, "ExportInProgress"), Insert(e, "ExportComplete") >>
    ELSE IF ent[e].ExportInProgress = "Failed"
        THEN << Remove(e, "ExportInProgress"), InsertFailed(e, ent[e].reason) >>
    ELSE << >>

export_poll_system ==
    /\ AtSystem("export_poll_system")
    /\ cmds' = cmds \o Flatten([e \in Entities |-> PollCmds(e)], NumEntities)
    /\ pc' = Advance(Schedule, pc, ent, cmds')
    /\ UNCHANGED <<engine, ent, net, nextNode, eng, res, assets, order, inserts, released>>

\* A control system whose enable loop would run after its disable loop.
SwitchEnableLast(old, en, on, dis, off) ==
    IF en # {} THEN on ELSE IF dis # {} THEN off ELSE old

\* The value both loops of a control system leave behind: the enable loop
\* writes on, the disable loop, which runs second, writes off.
Switch(old, en, on, dis, off) ==
    IF dis # {} THEN off ELSE IF en # {} THEN on ELSE old

live_analysis_control_system ==
    /\ AtSystem("live_analysis_control_system")
    /\ IF ~HasEngine THEN NoEngine({"EnableLiveAnalysis", "DisableLiveAnalysis"})
       ELSE LET en == AddedQuery("EnableLiveAnalysis")
                dis == AddedQuery("DisableLiveAnalysis")
            IN /\ eng' = [eng EXCEPT !.live_analysis = Switch(@, en, TRUE, dis, FALSE)]
               /\ res' = [res EXCEPT !.is_live = Switch(@, en, TRUE, dis, FALSE)]
               /\ Call({"EnableLiveAnalysis", "DisableLiveAnalysis"},
                       Pairs(en, "EnableLiveAnalysis") \cup Pairs(dis, "DisableLiveAnalysis"),
                       {},
                       [e \in Entities |->
                          (IF e \in en THEN << Remove(e, "EnableLiveAnalysis") >> ELSE << >>)
                          \o (IF e \in dis THEN << Remove(e, "DisableLiveAnalysis") >> ELSE << >>)])

\* select_input_device succeeds for the entities of ok, which all name a device.
audio_input_control_system ==
    /\ AtSystem("audio_input_control_system")
    /\ IF ~HasEngine THEN NoEngine({"EnableAudioInput", "DisableAudioInput"})
       ELSE LET en == AddedQuery("EnableAudioInput")
                dis == AddedQuery("DisableAudioInput")
            IN \E ok \in SUBSET {e \in en : ent[e].input.device_index # -1} :
               /\ eng' = [eng EXCEPT
                            !.input_device =
                                IF ok = {} THEN @ ELSE ent[Last(ok)].input.device_index,
                            !.input_gain =
                                IF en = {} THEN @ ELSE ent[Last(en)].input.gain,
                            !.input_monitoring =
                                Switch(@, en, IF en = {} THEN @ ELSE ent[Last(en)].input.monitoring,
                                       dis, FALSE)]
               /\ res' = res
               /\ Call({"EnableAudioInput", "DisableAudioInput"},
                       Pairs(en, "EnableAudioInput") \cup Pairs(dis, "DisableAudioInput"),
                       {},
                       [e \in Entities |->
                          (IF e \in en THEN << Remove(e, "EnableAudioInput") >> ELSE << >>)
                          \o (IF e \in dis THEN << Remove(e, "DisableAudioInput") >> ELSE << >>)])

midi_send_system ==
    /\ AtSystem("midi_send_system")
    /\ IF ~HasEngine THEN NoEngine({"SendMidi"})
       ELSE LET todo == AddedQuery("SendMidi") IN
            /\ eng' = [eng EXCEPT !.midi_queued = @ + Cardinality(todo)]
            /\ res' = res
            /\ Call({"SendMidi"}, Pairs(todo, "SendMidi"), {},
                    [e \in Entities |->
                       IF e \in todo THEN << Remove(e, "SendMidi") >> ELSE << >>])

\* `let Some(midi_system) = midi_handle.inner() else { return }`
midi2_send_system ==
    /\ AtSystem("midi2_send_system")
    /\ IF engine # "midi" THEN NoEngine({"SendMidi2"})
       ELSE LET todo == AddedQuery("SendMidi2") IN
            /\ eng' = [eng EXCEPT !.midi2_pushed = @ + Cardinality(todo)]
            /\ res' = res
            /\ Call({"SendMidi2"}, Pairs(todo, "SendMidi2"), {},
                    [e \in Entities |->
                       IF e \in todo THEN << Remove(e, "SendMidi2") >> ELSE << >>])

\* connect_device_by_name succeeds for the entities of ok; an engine without
\* MIDI subsystem has no device to connect.
midi_device_connect_system ==
    /\ AtSystem("midi_device_connect_system")
    /\ IF ~HasEngine THEN NoEngine({"ConnectMidiDevice", "DisconnectMidiDevice"})
       ELSE LET con == AddedQuery("ConnectMidiDevice")
                dis == AddedQuery("DisconnectMidiDevice")
            IN \E ok \in SUBSET (IF engine = "midi" THEN con ELSE {}) :
               LET connected == ok # {} \/ res.connected IN
               /\ eng' = [eng EXCEPT !.midi_device = Switch(@, ok, TRUE, dis, FALSE)]
               /\ res' = [res EXCEPT
                            !.connected = Switch(@, ok, TRUE, dis, FALSE),
                            !.events = @ \o [i \in 1..Cardinality(ok) |-> "Connected"]
                                         \o (IF dis # {} /\ connected
                                             THEN << "Disconnected" >> ELSE << >>)]
               /\ Call({"ConnectMidiDevice", "DisconnectMidiDevice"},
                       Pairs(con, "ConnectMidiDevice") \cup Pairs(dis, "DisconnectMidiDevice"),
                       Pairs(con \ ok, "ConnectMidiDevice"),
                       [e \in Entities |->
                          (IF e \in con THEN << Remove(e, "ConnectMidiDevice") >> ELSE << >>)
                          \o (IF e \in dis THEN << Remove(e, "DisconnectMidiDevice") >> ELSE << >>)])

\* A poll that would report a missing device whatever the state says.
PolledUnguarded(r, cur) ==
    IF ~cur THEN [r EXCEPT !.connected = FALSE, !.events = Append(@, "Disconnected")]
    ELSE [r EXCEPT !.connected = TRUE]

\* The resources after a poll that is due and finds the engine's device
\* connected (cur) or not.
Polled(r, cur) ==
    IF r.connected /\ ~cur
        THEN [r EXCEPT !.connected = FALSE, !.events = Append(@, "Disconnected")]
    ELSE IF cur THEN [r EXCEPT !.connected = TRUE]
    ELSE r

\* The poll is due when there was none before or the last one is two seconds
\* old; an engine without MIDI subsystem has no connected device.
midi_device_poll_system ==
    /\ AtSystem("midi_device_poll_system")
    /\ IF ~HasEngine THEN res' = res
       ELSE \E due \in BOOLEAN :
               /\ ~res.last_check => due
               /\ res' = IF due
                         THEN Polled([res EXCEPT !.last_check = TRUE],
                                     engine = "midi" /\ eng.midi_device)
                         ELSE res
    /\ pc' = Advance(Schedule, pc, ent, cmds)
    /\ UNCHANGED <<engine, ent, net, nextNode, eng, assets, cmds, order, inserts, released>>

\* The connected MIDI device disappears (it is unplugged).
DeviceLost ==
    /\ eng.midi_device
    /\ eng' = [eng EXCEPT !.midi_device = FALSE]
    /\ UNCHANGED <<engine, ent, net, nextNode, res, assets, cmds, pc, order, inserts, released>>

\* ------------------------------------------------------------------ mirrors
\* The values the engine comes to publish.
PublishedValues(f) ==
    IF f = "transport" THEN
        {[current_beat |-> 1, tempo |-> 120, is_playing |-> TRUE, is_paused |-> FALSE,
          is_recording |-> FALSE, is_loop_enabled |-> FALSE, loop_range |-> << >>,
          time_signature |-> << 4, 4 >>],
         [current_beat |-> 1, tempo |-> 90, is_playing |-> FALSE, is_paused |-> TRUE,
          is_recording |-> FALSE, is_loop_enabled |-> TRUE, loop_range |-> << 4, 8 >>,
          time_signature |-> << 3, 4 >>],
         [current_beat |-> 0, tempo |-> 120, is_playing |-> FALSE, is_paused |-> FALSE,
          is_recording |-> TRUE, is_loop_enabled |-> FALSE, loop_range |-> << >>,
          time_signature |-> << 4, 4 >>]}
    ELSE IF f = "amplitude" THEN {<< 1, 2, 1, 1 >>}
    ELSE IF f = "is_running" THEN {FALSE}
    ELSE IF f = "channels" THEN {1}
    ELSE IF f = "current_output_device_name" THEN {"b", ""}
    ELSE IF f = "output_devices" THEN {<< >>, << "b" >>, << "a", "b" >>}
    ELSE IF f = "analysis"
        THEN {[live_pitch |-> 1, live_transients |-> 1, live_waveform |-> 1]}
    ELSE IF f = "input_devices"
        THEN {<< [index |-> 0, name |-> "in" ] >>, << [index |-> 1, name |-> "usb" ] >>}
    ELSE {1}

\* Between two frames the engine's published state moves on.
EnginePublishes(f, v) ==
    /\ Idle /\ HasEngine /\ eng.published[f] # v
    /\ eng' = [eng EXCEPT !.published[f] = v]
    /\ inserts' = inserts + 1
    /\ UNCHANGED <<engine, ent, net, nextNode, res, assets, cmds, pc, order, released>>

\* The application overwrites a mirrored resource (all fields are pub).
UserWrites(m, v) ==
    /\ Idle /\ res.mirrors[m] # v
    /\ res' = [res EXCEPT !.mirrors[m] = v]
    /\ inserts' = inserts + 1
    /\ UNCHANGED <<engine, ent, net, nextNode, eng, assets, cmds, pc, order, released>>

\* A mirror system that would not ask for the engine.
MirrorAlways(name, m, copy) ==
    /\ AtSystem(name)
    /\ res' = [res EXCEPT !.mirrors[m] = copy]
    /\ pc' = Advance(Schedule, pc, ent, cmds)
    /\ UNCHANGED <<engine, ent, net, nextNode, eng, assets, cmds, order, inserts, released>>

\* A mirror system: it runs every frame, copies (copy is the resource after
\* the system's assignments) unless there is no engine, and touches nothing
\* else.
Mirror(name, m, copy) ==
    /\ AtSystem(name)
    /\ res' = IF HasEngine THEN [res EXCEPT !.mirrors[m] = copy] ELSE res
    /\ pc' = Advance(Schedule, pc, ent, cmds)
    /\ UNCHANGED <<engine, ent, net, nextNode, eng, assets, cmds, order, inserts, released>>

transport_sync_system ==
    LET t == eng.published.transport IN
    Mirror("transport_sync_system", "TransportState",
           [res.mirrors.TransportState EXCEPT
              !.beat = t.current_beat,
              !.is_playing = t.is_playing,
              !.is_recording = t.is_recording,
              !.tempo = t.tempo,
              !.is_looping = t.is_loop_enabled,
              !.loop_start = IF t.loop_range # << >> THEN t.loop_range[1] ELSE @,
              !.loop_end = IF t.loop_range # << >> THEN t.loop_range[2] ELSE @])

metering_sync_system ==
    LET a == eng.published.amplitude IN
    Mirror("metering_sync_system", "MasterMeterLevels",
           [peak_left |-> a[1], peak_right |-> a[2], rms_left |-> a[3], rms_right |-> a[4]])

device_state_sync_system ==
    LET p == eng.published IN
    Mirror("device_state_sync_system", "AudioDeviceState",
           [res.mirrors.AudioDeviceState EXCEPT
              !.is_running = p.is_running,
              !.channels = p.channels,
              !.current_device = IF p.current_output_device_name # ""
                                 THEN p.current_output_device_name ELSE @,
              !.output_devices = IF Len(p.output_devices) # Len(@)
                                 THEN p.output_devices ELSE @])

content_bounds_sync_system ==
    Mirror("content_bounds_sync_system", "ContentBounds",
           [end_beat |-> eng.published.content_end_beat,
            duration_seconds |-> eng.published.content_duration])

live_analysis_sync_system ==
    LET a == eng.published.analysis IN
    Mirror("live_analysis_sync_system", "LiveAnalysisData",
           IF res.is_live
           THEN [pitch |-> a.live_pitch, transients |-> a.live_transients,
                 waveform |-> a.live_waveform]
           ELSE res.mirrors.LiveAnalysisData)

audio_input_sync_system ==
    LET p == eng.published IN
    Mirror("audio_input_sync_system", "AudioInputState",
           [res.mirrors.AudioInputState EXCEPT
              !.peak_level = p.input_peak_level,
              !.devices = IF Len(@) # Len(p.input_devices) THEN p.input_devices ELSE @])

\* ------------------------------------------------------------------ parameter sync
\* A system's Changed<C> filter after the system ran.
Unflag(w, c) == [e \in Entities |-> [w[e] EXCEPT !.changed = @ \ {c}]]

\* Query<(&AudioEmitter, &AudioVolume), Changed<AudioVolume>>
VolumeChanged ==
    {e \in Entities :
        /\ ent[e].alive /\ ent[e].AudioEmitter # 0
        /\ ent[e].AudioVolume # NoVolume /\ "AudioVolume" \in ent[e].changed}

\* net.node_mut_typed::<SamplerUnit>(id) is Some
SamplerAt(g, n) == Contains(g, n) /\ g[n].kind = "SamplerUnit"

\* A gain write that would not look the node's type up: the gain lands in
\* whatever unit the emitter names.
SetGainUntyped(g, S) ==
    [n \in NodeIds |->
        IF Contains(g, n) /\ \E e \in S : ent[e].AudioEmitter = n
        THEN [g[n] EXCEPT !.gain = ent[Last({e \in S : ent[e].AudioEmitter = n})].AudioVolume]
        ELSE g[n]]

\* sampler.set_gain(volume.0) for the entities of S, in iteration order.
SetGain(g, S) ==
    [n \in NodeIds |->
        IF SamplerAt(g, n) /\ \E e \in S : ent[e].AudioEmitter = n
        THEN [g[n] EXCEPT !.gain = ent[Last({e \in S : ent[e].AudioEmitter = n})].AudioVolume]
        ELSE g[n]]

audio_parameter_sync_system ==
    /\ AtSystem("audio_parameter_sync_system")
    /\ ent' = Unflag(ent, "AudioVolume")
    /\ net' = IF HasEngine THEN SetGain(net, VolumeChanged) ELSE net
    /\ pc' = Advance(Schedule, pc, ent', cmds)
    /\ UNCHANGED <<engine, nextNode, eng, res, assets, cmds, order, inserts, released>>

\* Query<(&TimeStretch, &TimeStretchControl), Changed<TimeStretch>>
StretchChanged ==
    {e \in Entities :
        /\ ent[e].alive /\ {"TimeStretch", "TimeStretchControl"} \subseteq ent[e].comps
        /\ "TimeStretch" \in ent[e].changed}

\* A store that would go through the graph: it reaches the atomics only
\* while the unit is a node of the graph.
StoreStretchInGraph(g, S) ==
    [n \in NodeIds |->
        IF Contains(g, n) /\ \E e \in S : ent[e].TimeStretchControl = n
        THEN LET e == Last({x \in S : ent[x].TimeStretchControl = n})
             IN [g[n] EXCEPT !.stretch_factor = ent[e].TimeStretch.stretch_factor,
                             !.pitch_cents = ent[e].TimeStretch.pitch_cents]
        ELSE g[n]]

\* control.stretch_factor.set(..); control.pitch_cents.set(..) for the
\* entities of S: the stores land in the atomics of the unit the control was
\* taken from, whether or not that unit is still a node of the graph.
StoreStretch(g, S) ==
    [n \in NodeIds |->
        IF \E e \in S : ent[e].TimeStretchControl = n
        THEN LET e == Last({x \in S : ent[x].TimeStretchControl = n})
             IN [g[n] EXCEPT !.stretch_factor = ent[e].TimeStretch.stretch_factor,
                             !.pitch_cents = ent[e].TimeStretch.pitch_cents]
        ELSE g[n]]

time_stretch_sync_system ==
    /\ AtSystem("time_stretch_sync_system")
    /\ ent' = Unflag(ent, "TimeStretch")
    /\ net' = StoreStretch(net, StretchChanged)
    /\ pc' = Advance(Schedule, pc, ent', cmds)
    /\ UNCHANGED <<engine, nextNode, eng, res, assets, cmds, order, inserts, released>>

\* ------------------------------------------------------------------ spatial
\* f32 arithmetic on the model's grid: distances are whole numbers, gains are
\* hundredths rounded down, angles are whole degrees.
Abs(x) == IF x < 0 THEN -x ELSE x

\* x.max(lo) / x.clamp(lo, hi)
Larger(x, lo) == IF x < lo THEN lo ELSE x

Clamp(x, lo, hi) == IF x < lo THEN lo ELSE IF x > hi THEN hi ELSE x

\* f32::sqrt
Sqrt(n) == CHOOSE r \in 0..n : r * r <= n /\ n < (r + 1) * (r + 1)

\* Vec3::length
Length(v) == Sqrt(v[1] * v[1] + v[2] * v[2] + v[3] * v[3])

\* y.atan2(x).to_degrees() for the directions of the grid (along an axis or
\* a diagonal); negzero says that the zeros among y and x are -0.0, which is
\* what the negation of 0.0 gives.
Atan2Degrees(y, x, negzero) ==
    IF y > 0 THEN (IF x > 0 THEN 45 ELSE IF x = 0 THEN 90 ELSE 135)
    ELSE IF y < 0 THEN (IF x > 0 THEN -45 ELSE IF x = 0 THEN -90 ELSE -135)
    ELSE IF x > 0 THEN 0
    ELSE IF negzero THEN -180
    ELSE IF x < 0 THEN 180 ELSE 0

\* An attenuation that would not cut off at max_distance.
AttenuationUncut(distance, model, ref_distance, max_distance) ==
    IF model = "InverseDistance"
        THEN (Unity * ref_distance) \div (ref_distance + Larger(distance - ref_distance, 0))
    ELSE IF model = "Linear"
        THEN Unity - Clamp((Unity * distance) \div max_distance, 0, Unity)
    ELSE IF distance = 0 THEN Unity
    ELSE Clamp((Unity * ref_distance * ref_distance) \div (distance * distance), 0, Unity)

compute_attenuation(distance, model, ref_distance, max_distance) ==
    IF distance >= max_distance THEN 0
    ELSE IF model = "InverseDistance"
        THEN (Unity * ref_distance) \div (ref_distance + Larger(distance - ref_distance, 0))
    ELSE IF model = "Linear"
        THEN Unity - Clamp((Unity * distance) \div max_distance, 0, Unity)
    ELSE IF distance = 0 THEN Unity
    ELSE Clamp((Unity * ref_distance * ref_distance) \div (distance * distance), 0, Unity)

\* Query<(&GlobalTransform, &AudioEmitter, &mut SpatialAudio)>
SpatialEmitters ==
    {e \in Entities :
        ent[e].alive /\ ent[e].AudioEmitter # 0 /\ "SpatialAudio" \in ent[e].comps}

\* A lookup that would settle for the first of several listeners.
ListenerFirstOfMany ==
    LET ls == {e \in Entities : ent[e].alive /\ "AudioListener" \in ent[e].comps}
    IN IF ls # {} THEN CHOOSE e \in ls : \A o \in ls : e <= o ELSE 0

\* listener_query.single().ok(): the listener if there is exactly one, else 0.
Listener ==
    LET ls == {e \in Entities : ent[e].alive /\ "AudioListener" \in ent[e].comps}
    IN IF Cardinality(ls) = 1 THEN CHOOSE e \in ls : TRUE ELSE 0

\* listener.affine().inverse().transform_point3(p)
Relative(l, p) ==
    LET o == ent[l].GlobalTransform.translation
        f == ent[l].GlobalTransform.facing
    IN << f * (p[1] - o[1]), p[2] - o[2], f * (p[3] - o[3]) >>

\* A system that would place every emitter relative to the world origin.
HeardFromOrigin(e) ==
    LET p == ent[e].GlobalTransform.translation
    IN << Atan2Degrees(p[1], p[3], FALSE),
          Atan2Degrees(p[2], Sqrt(p[1] * p[1] + p[3] * p[3]), FALSE),
          Length(p) >>

\* (azimuth, elevation, distance) of emitter e.
Heard(e) ==
    LET p == ent[e].GlobalTransform.translation IN
    IF Listener # 0
    THEN LET r == Relative(Listener, p)
         IN << Atan2Degrees(-r[1], -r[3], TRUE),
               Atan2Degrees(r[2], Sqrt(r[1] * r[1] + r[3] * r[3]), FALSE),
               Length(r) >>
    ELSE << Atan2Degrees(p[1], p[3], FALSE),
            Atan2Degrees(p[2], Sqrt(p[1] * p[1] + p[3] * p[3]), FALSE),
            Length(p) >>

\* The gain the system computes for emitter e.
Attenuation(e) ==
    compute_attenuation(Heard(e)[3], ent[e].SpatialAudio.attenuation,
                        ent[e].SpatialAudio.ref_distance,
                        ent[e].SpatialAudio.max_distance)

\* The emitters whose panner does not exist yet.
Unpanned == {e \in SpatialEmitters : ent[e].SpatialAudio.panner_node_id = 0}

\* A panner that would be wired to nothing.
PannerUnwired(e) == [Node("SpatialPannerNode", FALSE) EXCEPT !.owner = e, !.gain = 0]

\* The SpatialPannerNode of e: connect_ports(emitter_node, 0, panner_id, 0),
\* pipe_output(panner_id).
Panner(e) ==
    [Node("SpatialPannerNode", FALSE) EXCEPT
        !.owner = e, !.gain = 0, !.source = ent[e].AudioEmitter, !.piped = TRUE]

\* The panner of e after this run's creations (0 = none): the cached one, or
\* the one created now.
PannerNow(e, made) ==
    IF e \in made THEN NodeOf(e, made) ELSE ent[e].SpatialAudio.panner_node_id

\* The graph after the emitters of S were processed in iteration order:
\* panner.set_position(azimuth, elevation) where the typed lookup finds a
\* SpatialPannerNode, sampler.set_gain(gain) where it finds a SamplerUnit.
Positioned(g, S, made) ==
    [n \in NodeIds |->
        IF g[n].kind = "SpatialPannerNode" /\ \E e \in S : PannerNow(e, made) = n
            THEN LET e == Last({x \in S : PannerNow(x, made) = n})
                 IN [g[n] EXCEPT !.azimuth = Heard(e)[1], !.elevation = Heard(e)[2]]
        ELSE IF SamplerAt(g, n) /\ \E e \in S : ent[e].AudioEmitter = n
            THEN [g[n] EXCEPT
                    !.gain = Attenuation(Last({x \in S : ent[x].AudioEmitter = n}))]
        ELSE g[n]]

\* SpatialPannerNode::stereo() is Ok for the emitters of made and Err for the
\* other emitters without a panner; those are skipped until the next run
\* (failed keeps the warning as history).
spatial_audio_sync_system ==
    /\ AtSystem("spatial_audio_sync_system")
    /\ IF ~HasEngine
       THEN UNCHANGED <<ent, net, nextNode>>
       ELSE \E made \in SUBSET Unpanned :
            LET placed == {e \in SpatialEmitters : PannerNow(e, made) # 0}
                added == [n \in NodeIds |->
                            IF \E e \in made : NodeOf(e, made) = n
                            THEN Panner(CHOOSE e \in made : NodeOf(e, made) = n)
                            ELSE net[n]]
            IN /\ ent' = [e \in Entities |->
                            IF e \in made
                            THEN [ent[e] EXCEPT
                                    !.SpatialAudio.panner_node_id = NodeOf(e, made)]
                            ELSE IF e \in Unpanned
                            THEN [ent[e] EXCEPT !.failed = @ \cup {"SpatialAudio"}]
                            ELSE ent[e]]
               /\ net' = Positioned(added, placed, made)
               /\ nextNode' = nextNode + Cardinality(made)
    /\ pc' = Advance(Schedule, pc, ent', cmds)
    /\ UNCHANGED <<engine, eng, res, assets, cmds, order, inserts, released>>

\* ------------------------------------------------------------------ cleanup
\* A lookup that would not ask the sampler whether it plays.
IsSampler(g, n) == Contains(g, n) /\ g[n].kind = "SamplerUnit"

\* net.node_ref_typed::<SamplerUnit>(id).map(|s| s.is_playing()).unwrap_or(false)
IsPlaying(g, n) == Contains(g, n) /\ g[n].kind = "SamplerUnit" /\ g[n].playing

\* The entities audio_cleanup_system finishes: in its query, Playing, and the
\* typed lookup says "not playing".
Finishing ==
    {e \in Entities :
        /\ ent[e].alive /\ ent[e].AudioEmitter # 0
        /\ ent[e].AudioPlaybackState = "Playing"
        /\ ~IsPlaying(net, ent[e].AudioEmitter)}

\* net.remove of the nodes of the entities of S, where the graph contains them.
RemoveNodes(g, S) ==
    [n \in NodeIds |-> IF \E e \in S : ent[e].AudioEmitter = n THEN Removed(g[n]) ELSE g[n]]

CleanupCmds(e) ==
    IF "DespawnOnFinish" \in ent[e].comps THEN << Despawn(e) >> ELSE << >>

audio_cleanup_system ==
    /\ AtSystem("audio_cleanup_system")
    /\ IF ~HasEngine
       THEN UNCHANGED <<ent, net, cmds>>
       ELSE /\ ent' = [e \in Entities |->
                         IF e \in Finishing
                         THEN [ent[e] EXCEPT !.AudioPlaybackState = "Finished"]
                         ELSE ent[e]]
            /\ net' = RemoveNodes(net, Finishing)
            /\ cmds' = cmds \o Flatten([e \in Entities |->
                                          IF e \in Finishing THEN CleanupCmds(e) ELSE << >>],
                                       NumEntities)
    /\ pc' = Advance(Schedule, pc, ent', cmds')
    /\ UNCHANGED <<engine, nextNode, eng, res, assets, order, inserts, released>>

\* The entities plugin_crash_detect_system strips.
Crashed ==
    {e \in Entities :
        /\ ent[e].alive /\ ent[e].AudioEmitter # 0
        /\ "PluginEmitter" \in ent[e].comps
        /\ ent[e].is_crashed}

\* A crash handler that would forget the editor marker.
CrashKeepEditor(e) == << Remove(e, "PluginEmitter"), Remove(e, "AudioEmitter") >>

CrashCmds(e) ==
    << Remove(e, "PluginEmitter"), Remove(e, "PluginEditorOpen"), Remove(e, "AudioEmitter") >>

plugin_crash_detect_system ==
    /\ AtSystem("plugin_crash_detect_system")
    /\ IF ~HasEngine
       THEN UNCHANGED <<net, cmds>>
       ELSE /\ net' = RemoveNodes(net, Crashed)
            /\ cmds' = cmds \o Flatten([e \in Entities |->
                                          IF e \in Crashed THEN CrashCmds(e) ELSE << >>],
                                       NumEntities)
    /\ pc' = Advance(Schedule, pc, ent, cmds')
    /\ UNCHANGED <<engine, ent, nextNode, eng, res, assets, order, inserts, released>>

\* ------------------------------------------------------------------ MIDI routing
\* Query<&T, Changed<T>> is not empty.
ChangedQuery(k) == \E e \in Entities : ent[e].alive /\ k \in ent[e].changed

\* removed.read().next().is_some()
Unread(k) == res.removed[k][1] + res.removed[k][2] > 0

\* removed.read().next(): the oldest unread event, if any, is consumed.
ReadOne(v) ==
    IF v[1] > 0 THEN << v[1] - 1, v[2] >>
    ELSE IF v[2] > 0 THEN << v[1], v[2] - 1 >>
    ELSE v

\* A dirty check that would only look at the Changed queries.
ChangedOnly == ChangedQuery("MidiReceiver") \/ ChangedQuery("MpeReceiver")

\* has_changes: one dirty check across both receiver kinds.
HasChanges ==
    \/ ChangedQuery("MidiReceiver") \/ Unread("MidiReceiver")
    \/ ChangedQuery("MpeReceiver") \/ Unread("MpeReceiver")

\* The removal events left after the dirty check: `||` evaluates a read only
\* when everything before it was false.
AfterDirtyCheck ==
    LET first == ~ChangedQuery("MidiReceiver")
        second == /\ ~(ChangedQuery("MidiReceiver") \/ Unread("MidiReceiver"))
                  /\ ~ChangedQuery("MpeReceiver")
    IN [res.removed EXCEPT
          !["MidiReceiver"] = IF first THEN ReadOne(@) ELSE @,
          !["MpeReceiver"] = IF second THEN ReadOne(@) ELSE @]

RoutingOp(op, ch, unit) == [op |-> op, ch |-> ch, unit |-> unit]

\* A rebuild whose MpeReceiver loop would run before the MidiReceiver loop.
RoutingInsertsMpeFirst ==
    Flatten([e \in Entities |->
               IF ent[e].alive /\ ent[e].MpeReceiver # 0
               THEN << RoutingOp("fallback", -1, ent[e].MpeReceiver) >>
               ELSE << >>], NumEntities)
    \o Flatten([e \in Entities |->
                  IF ent[e].alive /\ ent[e].MidiReceiver # NoReceiver
                  THEN << RoutingOp(IF ent[e].MidiReceiver.channel # -1
                                    THEN "channel" ELSE "fallback",
                                    ent[e].MidiReceiver.channel,
                                    ent[e].MidiReceiver.node_id) >>
                  ELSE << >>], NumEntities)

\* The inserts of the two loops over all_receivers and all_mpe_receivers.
RoutingInserts ==
    Flatten([e \in Entities |->
               IF ent[e].alive /\ ent[e].MidiReceiver # NoReceiver
               THEN << RoutingOp(IF ent[e].MidiReceiver.channel # -1
                                 THEN "channel" ELSE "fallback",
                                 ent[e].MidiReceiver.channel,
                                 ent[e].MidiReceiver.node_id) >>
               ELSE << >>], NumEntities)
    \o Flatten([e \in Entities |->
                  IF ent[e].alive /\ ent[e].MpeReceiver # 0
                  THEN << RoutingOp("fallback", -1, ent[e].MpeReceiver) >>
                  ELSE << >>], NumEntities)

\* A rebuild that would commit the cleared table before filling it.
RoutingOpsCommitFirst ==
    << RoutingOp("clear", -1, 0), RoutingOp("commit", -1, 0) >>
    \o RoutingInserts \o << RoutingOp("commit", -1, 0) >>

\* The calls of the closure handed to engine.midi_routing, in order.
RoutingOps ==
    << RoutingOp("clear", -1, 0) >> \o RoutingInserts \o << RoutingOp("commit", -1, 0) >>

\* One call on the table of engine state g: clear, channel and fallback edit
\* the working table, channel and fallback replace what the slot held, and
\* commit publishes the working table to the audio thread in one step.
ApplyOp(g, o) ==
    IF o.op = "clear" THEN [g EXCEPT !.working = EmptyTable]
    ELSE IF o.op = "channel" THEN [g EXCEPT !.working.channel[o.ch] = o.unit]
    ELSE IF o.op = "fallback" THEN [g EXCEPT !.working.fallback = o.unit]
    ELSE [g EXCEPT !.routing = g.working]

\* The system up to the closure: the engine check and the dirty check.  The
\* Changed queries of a system that returned early have still been run.
midi_routing_sync_system ==
    /\ AtSystem("midi_routing_sync_system") /\ eng.rebuild = 0
    /\ ent' = [e \in Entities |-> [ent[e] EXCEPT !.changed = {}]]
    /\ IF ~HasEngine
       THEN /\ UNCHANGED <<eng, res>>
            /\ pc' = Advance(Schedule, pc, ent', cmds)
       ELSE /\ res' = [res EXCEPT !.removed = AfterDirtyCheck]
            /\ IF HasChanges
               THEN eng' = [eng EXCEPT !.rebuild = 1] /\ pc' = pc
               ELSE eng' = eng /\ pc' = Advance(Schedule, pc, ent', cmds)
    /\ UNCHANGED <<engine, net, nextNode, assets, cmds, order, inserts, released>>

\* The closure, one call on the table at a time: the audio thread runs
\* between any two of them.
RoutingStep ==
    /\ AtSystem("midi_routing_sync_system") /\ eng.rebuild > 0
    /\ LET last == eng.rebuild = Len(RoutingOps) IN
       /\ eng' = [ApplyOp(eng, RoutingOps[eng.rebuild]) EXCEPT
                    !.rebuild = IF last THEN 0 ELSE @ + 1]
       /\ pc' = IF last THEN Advance(Schedule, pc, ent, cmds) ELSE pc
    /\ UNCHANGED <<engine, ent, net, nextNode, res, assets, cmds, order, inserts, released>>

\* ------------------------------------------------------------------ MIDI input
\* The kinds of event the hardware input delivers.
MidiEvents == {"NoteOn", "NoteOff"}

\* The observer the engine's MIDI thread was given (the Sender half of the
\* unbounded channel) sends an event: eng.input_channel is what the channel
\* holds, eng.pushed everything that was ever sent.  The thread runs at any
\* moment, also between two try_recv of the drain.
ObserverPushes(m) ==
    /\ engine = "midi" /\ Len(eng.pushed) < MaxEvents
    /\ eng' = [eng EXCEPT !.input_channel = Append(@, m), !.pushed = Append(@, m)]
    /\ UNCHANGED <<engine, ent, net, nextNode, res, assets, cmds, pc, order, inserts, released>>

\* A writer that would write every event twice.
WriteInputTwice(log, event) == log \o << event, event >>

\* writer.write(MidiInputEvent(event)); log is every MidiInputEvent written
\* so far.
WriteInput(log, event) == Append(log, event)

\* One turn of `while let Ok(event) = observer.receiver.try_recv()`:
\* try_recv returns at once, with the oldest event of the channel, which is
\* written, or with Err when the channel is empty, which ends the system.
midi_input_event_system ==
    /\ AtSystem("midi_input_event_system")
    /\ IF eng.input_channel # << >>
       THEN /\ res' = [res EXCEPT !.midi_input = WriteInput(@, Head(eng.input_channel))]
            /\ eng' = [eng EXCEPT !.input_channel = Tail(@)]
            /\ pc' = pc
       ELSE /\ UNCHANGED <<eng, res>>
            /\ pc' = Advance(Schedule, pc, ent, cmds)
    /\ UNCHANGED <<engine, ent, net, nextNode, assets, cmds, order, inserts, released>>

\* handle.editor_idle() on every plugin whose editor is open: nothing of the
\* world or the graph changes.
plugin_editor_idle_system ==
    /\ AtSystem("plugin_editor_idle_system")
    /\ pc' = Advance(Schedule, pc, ent, cmds)
    /\ UNCHANGED <<engine, ent, net, nextNode, eng, res, assets, cmds, order, inserts, released>>

\* ------------------------------------------------------------------ specification
\* The payloads the application chooses from.
Recordings == {[channel_index |-> c, source |-> "Input", mode |-> "Replace"] : c \in Channels}

Inputs == {[device_index |-> d, monitoring |-> m, gain |-> 2] : d \in {-1, 0}, m \in BOOLEAN}

\* The build with every feature: all trigger systems, the cleanup, the crash
\* detection and the export poll.  Samples outlast the behaviour.
InsertAny(e, k) ==
    IF k = "PlayAudio"
        THEN \E lp \in BOOLEAN, ad \in BOOLEAN, ts \in BOOLEAN : InsertPlayAudio(e, lp, ad, ts)
    ELSE IF k = "LoadPlugin" THEN \E x \in Extensions : InsertLoadPlugin(e, x)
    ELSE IF k = "StartRecording" THEN \E r \in Recordings : InsertStartRecording(e, r)
    ELSE IF k = "StopRecording" THEN \E ch \in Channels : InsertStopRecording(e, ch)
    ELSE IF k = "EnableAudioInput" THEN \E i \in Inputs : InsertEnableAudioInput(e, i)
    ELSE InsertTrigger(e, k)

Application ==
    \E e \in Entities, k \in Kinds :
        /\ inserts < MaxTriggers
        /\ InsertAny(e, k)

Environment ==
    \/ \E a \in AssetTypes : AssetLoaded(a)
    \/ \E e \in Entities : PluginCrashes(e)
    \/ \E e \in Entities : \E s \in {"Running", "Complete", "Failed"} :
            ExportProgresses(e, s, IF s = "Failed" THEN "disk full" ELSE "")

Frame ==
    \/ BeginFrame({"A", "B"})
    \/ soundfont_playback_system
    \/ neural_synth_playback_system
    \/ neural_effect_playback_system
    \/ plugin_load_system
    \/ plugin_crash_detect_system
    \/ dsp_compressor_system
    \/ dsp_gate_system
    \/ dsp_lfo_system
    \/ automation_lane_system
    \/ recording_start_system
    \/ recording_stop_system
    \/ export_start_system
    \/ export_poll_system
    \/ live_analysis_control_system
    \/ audio_input_control_system
    \/ midi_send_system
    \/ midi2_send_system
    \/ midi_device_connect_system
    \/ audio_playback_system
    \/ ApplyDeferred
    \/ audio_cleanup_system
    \/ EndOfFrame

Next == Application \/ Environment \/ Frame

Spec == Init /\ [][Next]_vars

\* The build with the sampler feature only: PlayAudio and AddLfo triggers and
\* samples that end.
SamplerApplication ==
    \E e \in Entities :
        /\ inserts < MaxInserts
        /\ \/ \E lp \in BOOLEAN, ad \in BOOLEAN, ts \in BOOLEAN : InsertPlayAudio(e, lp, ad, ts)
           \/ InsertTrigger(e, "AddLfo")

SamplerEnvironment ==
    \/ AssetLoaded("audio")
    \/ \E n \in NodeIds : SamplerStops(n)

SamplerFrame ==
    \/ BeginFrame({"S", "T"})
    \/ dsp_lfo_system
    \/ audio_playback_system
    \/ ApplyDeferred
    \/ audio_cleanup_system
    \/ EndOfFrame

SamplerNext == SamplerApplication \/ SamplerEnvironment \/ SamplerFrame

SpecSampler == InitSampler /\ [][SamplerNext]_vars

\* The sampler build with a user who removes emitters and despawns entities.
UserNext ==
    \/ SamplerNext
    \/ \E e \in Entities : UserRemoveEmitter(e)
    \/ \E e \in Entities : UserDespawn(e)

SpecUser == InitSampler /\ [][UserNext]_vars

\* The build with the plugin feature only: LoadPlugin and AddLfo triggers,
\* editors that open and close, plugins that crash.
PluginApplication ==
    \E e \in Entities :
        \/ /\ inserts < MaxInserts
           /\ \/ \E x \in Extensions : InsertLoadPlugin(e, x)
              \/ InsertTrigger(e, "AddLfo")
        \/ OpenEditor(e)
        \/ CloseEditor(e)

PluginEnvironment == \E e \in Entities : PluginCrashes(e)

PluginFrame ==
    \/ BeginFrame({"P", "Q"})
    \/ plugin_load_system
    \/ plugin_editor_idle_system
    \/ plugin_crash_detect_system
    \/ dsp_lfo_system
    \/ EndOfFrame

PluginNext == PluginApplication \/ PluginEnvironment \/ PluginFrame

SpecPlugin == Init /\ [][PluginNext]_vars

\* The mirrors of a build with the analysis feature and an engine.
MirrorFrame ==
    \/ transport_sync_system
    \/ metering_sync_system
    \/ device_state_sync_system
    \/ content_bounds_sync_system
    \/ live_analysis_sync_system
    \/ audio_input_sync_system

MirrorNext ==
    \/ /\ inserts < MaxInserts
       /\ \/ \E f \in DOMAIN NewPublished : \E v \in PublishedValues(f) :
                EnginePublishes(f, v)
          \/ InsertTrigger(1, "EnableLiveAnalysis")
    \/ BeginFrame({"X"})
    \/ live_analysis_control_system
    \/ MirrorFrame
    \/ EndOfFrame

SpecMirror == InitPlain /\ [][MirrorNext]_vars

\* The full build when TuttiEngine::builder().build() failed: no
\* TuttiEngineResource.  The systems that only look at what an engine call
\* installed (cleanup, crash detection, export polling) never find anything.
UserValue(m) ==
    IF m = "TransportState"
    THEN [DefaultMirrors[m] EXCEPT !.tempo = 90, !.is_paused = FALSE]
    ELSE [DefaultMirrors[m] EXCEPT !.output_devices = << "x" >>]

NoEngineNext ==
    \/ /\ inserts < MaxTriggers
       /\ \/ \E e \in Entities, k \in Plain : InsertTrigger(e, k)
          \/ \E e \in Entities :
                \/ InsertPlayAudio(e, FALSE, TRUE, TRUE)
                \/ InsertLoadPlugin(e, "vst3")
                \/ InsertStartRecording(e, [channel_index |-> 0, source |-> "Input",
                                            mode |-> "Replace"])
                \/ InsertStopRecording(e, 0)
          \/ \E m \in {"TransportState", "AudioDeviceState"} : UserWrites(m, UserValue(m))
    \/ BeginFrame({"N"})
    \/ MirrorFrame
    \/ soundfont_playback_system
    \/ neural_synth_playback_system
    \/ neural_effect_playback_system
    \/ plugin_load_system
    \/ dsp_compressor_system
    \/ dsp_gate_system
    \/ dsp_lfo_system
    \/ automation_lane_system
    \/ recording_start_system
    \/ recording_stop_system
    \/ export_start_system
    \/ live_analysis_control_system
    \/ audio_input_control_system
    \/ midi_send_system
    \/ midi2_send_system
    \/ midi_device_connect_system
    \/ audio_playback_system
    \/ EndOfFrame

SpecNoEngine == InitNone /\ [][NoEngineNext]_vars

\* The sampler build whose application plays samples with TimeStretch and
\* AudioVolume and changes both afterwards.
SyncApplication ==
    \E e \in Entities :
        /\ inserts < MaxInserts
        /\ \/ \E lp \in BOOLEAN, ts \in {NoStretch, SpawnStretch},
                  v \in {NoVolume, SpawnVolume} : PlayAudioWith(e, lp, ts, v)
           \/ \E v \in Volumes : SetVolume(e, v)
           \/ \E ts \in Stretches : SetStretch(e, ts)

SyncEnvironment ==
    \/ AssetLoaded("audio")
    \/ \E n \in NodeIds : SamplerStops(n)

SyncFrame ==
    \/ BeginFrame({"V", "W"})
    \/ audio_playback_system
    \/ ApplyDeferred
    \/ audio_parameter_sync_system
    \/ time_stretch_sync_system
    \/ audio_cleanup_system
    \/ EndOfFrame

SyncNext == SyncApplication \/ SyncEnvironment \/ SyncFrame

SpecSync == InitSampler /\ [][SyncNext]_vars

\* The build with the sampler and spatial features: emitters that are
\* spawned with a SpatialAudio, moved and turned up or down, and a listener.
SpatialApplication ==
    \E e \in Entities :
        /\ inserts < MaxInserts
        /\ \/ \E v \in {NoVolume, SpawnVolume} :
                  PlayAudioAt(e, SpawnSpatial, SpawnPosition, v)
           \/ \E f \in Facings : InsertListener(e, f)
           \/ \E p \in Moves : MoveTo(e, p)
           \/ \E v \in Volumes : SetVolume(e, v)

\* The samples are long: none ends while the build is observed.
SpatialEnvironment == AssetLoaded("audio")

SpatialFrame ==
    \/ BeginFrame({"Y", "Z"})
    \/ audio_playback_system
    \/ ApplyDeferred
    \/ audio_parameter_sync_system
    \/ spatial_audio_sync_system
    \/ audio_cleanup_system
    \/ EndOfFrame

SpatialNext == SpatialApplication \/ SpatialEnvironment \/ SpatialFrame

SpecSpatial == InitPlain /\ [][SpatialNext]_vars

\* compute_attenuation on its own: every entity is an emitter that plays and
\* carries the same SpatialAudio, drawn from SpatialAudios, at a position drawn
\* from Positions; no panner could be created yet.  Every tick applies the
\* function to their distances.
InitAttenuation ==
    /\ engine = "plain"
    /\ \E sp \in SpatialAudios, at \in [Entities -> Positions] :
         ent = [e \in Entities |->
                  [BareEntity(TRUE) EXCEPT
                      !.AudioEmitter = e, !.AudioPlaybackState = "Playing",
                      !.SpatialAudio = sp, !.GlobalTransform.translation = at[e],
                      !.comps = {"SpatialAudio"}, !.failed = {"SpatialAudio"}]]
    /\ net = [n \in NodeIds |->
                IF n \in Entities THEN [Node("SamplerUnit", FALSE) EXCEPT !.owner = n]
                ELSE NoNode]
    /\ nextNode = NumEntities + 1
    /\ eng = NewEngine
    /\ res = [is_live |-> FALSE, connected |-> FALSE, events |-> << >>,
              midi_input |-> << >>, last_check |-> FALSE,
              removed |-> NoRemovals, mirrors |-> DefaultMirrors]
    /\ assets = [a \in AssetTypes |-> a = "audio"]
    /\ cmds = <<>>
    /\ pc = 0
    /\ order = "A"
    /\ inserts = 0
    /\ released = [n \in NodeIds |-> 0]

AttenuationNext ==
    \/ BeginFrame({"Y", "Z"})
    \/ spatial_audio_sync_system
    \/ audio_cleanup_system
    \/ EndOfFrame

\* The build with the sampler and spatial features in a scene of one-shot
\* samples and listeners: every entity plays at most one sample, the samples
\* end, and entities become listeners where they are or at the origin.
SceneApplication ==
    \E e \in Entities :
        /\ inserts < MaxInserts + 1
        /\ \/ /\ "SpatialAudio" \notin ent[e].comps
              /\ PlayAudioAt(e, SpawnSpatial, SpawnPosition, NoVolume)
           \/ InsertListener(e, Identity.facing)
           \/ MarkListener(e)

SceneEnvironment ==
    \/ AssetLoaded("audio")
    \/ \E n \in NodeIds : SamplerStops(n)

SceneFrame ==
    \/ BeginFrame({"Y"})
    \/ audio_playback_system
    \/ ApplyDeferred
    \/ spatial_audio_sync_system
    \/ audio_cleanup_system
    \/ EndOfFrame

SceneNext == SceneApplication \/ SceneEnvironment \/ SceneFrame

SpecScene == InitPlain /\ [][SceneNext]_vars

SpecAttenuation == InitAttenuation /\ [][AttenuationNext]_vars

\* The build with the MIDI features: receivers that are bound, rebound and
\* removed, the routing synchronizer and the audio thread.
ReceiverNodes == {1, 2}

Receivers ==
    {[node_id |-> n, channel |-> c] : n \in ReceiverNodes, c \in {-1} \cup MidiChannels}

MidiApplication ==
    \E e \in Entities :
        /\ inserts < MaxBindings
        /\ \/ \E r \in Receivers : SetReceiver(e, r)
           \/ RemoveReceiver(e)
           \/ \E n \in ReceiverNodes : SetMpeReceiver(e, n)
           \/ RemoveMpeReceiver(e)

MidiFrame ==
    \/ BeginFrame({"M"})
    \/ midi_routing_sync_system
    \/ RoutingStep
    \/ EndOfFrame

MidiNext == MidiApplication \/ AudioThreadReads \/ MidiFrame

\* The engine of this build was built with its MIDI subsystem.
InitMidi == Init /\ engine # "plain"

SpecMidi == InitMidi /\ [][MidiNext]_vars

\* The recording systems of the sampler build, with recordings of two modes.
RecordingChoices ==
    {[channel_index |-> c, source |-> "Input", mode |-> m] :
        c \in Channels, m \in {"Replace", "Overdub"}}

RecordingApplication ==
    \E e \in Entities :
        /\ inserts < MaxRecordings
        /\ \/ \E r \in RecordingChoices : InsertStartRecording(e, r)
           \/ \E ch \in Channels : InsertStopRecording(e, ch)

RecordingFrame ==
    \/ BeginFrame({"R", "U"})
    \/ recording_start_system
    \/ recording_stop_system
    \/ EndOfFrame

RecordingNext == RecordingApplication \/ RecordingFrame

SpecRecording == InitSampler /\ [][RecordingNext]_vars

\* The sampler build whose transport moves: the engine's beat advances
\* between two frames, and the mirror and the recording start run in either
\* order.
OriginNext ==
    \/ /\ inserts < MaxRecordings
       /\ \/ \E v \in PublishedValues("transport") : EnginePublishes("transport", v)
          \/ \E e \in Entities : \E r \in RecordingChoices : InsertStartRecording(e, r)
    \/ BeginFrame({"G", "H"})
    \/ transport_sync_system
    \/ recording_start_system
    \/ EndOfFrame

SpecOrigin == InitPlain /\ [][OriginNext]_vars

\* ------------------------------------------------------------------ graph lock
\* One call made inside a closure that was handed to engine.graph_mut.
LockedCall(op, unit) == [op |-> op, unit |-> unit]

\* The calls of the closure that system d hands to engine.graph_mut for one
\* entity, in order.  v is the branch the closure takes: the TimeStretch of
\* the entity (playback), Ok of SpatialPannerNode::stereo() (spatial), the
\* stereo flag (compressor, gate), Some of the typed lookup (parameter sync)
\* and net.contains (cleanup).
Closure(d, v) ==
    IF d = "audio_playback_system" THEN
        << LockedCall("construct", "SamplerUnit") >>
        \o (IF v THEN << LockedCall("construct", "TimeStretchUnit"),
                         LockedCall("set", "TimeStretchUnit"),
                         LockedCall("set", "TimeStretchUnit"),
                         LockedCall("clone", "TimeStretchControl"),
                         LockedCall("add", "TimeStretchUnit") >>
             ELSE << LockedCall("add", "SamplerUnit") >>)
    ELSE IF d = "spatial_audio_sync_system" THEN
        << LockedCall("construct", "SpatialPannerNode") >>
        \o (IF v THEN << LockedCall("add", "SpatialPannerNode"),
                         LockedCall("connect", "SpatialPannerNode"),
                         LockedCall("connect", "SpatialPannerNode") >>
             ELSE << >>)
    ELSE IF d = "dsp_compressor_system" THEN
        << LockedCall("construct", "SidechainCompressor"),
           LockedCall("add", "SidechainCompressor") >>
    ELSE IF d = "dsp_gate_system" THEN
        << LockedCall("construct", "SidechainGate"), LockedCall("add", "SidechainGate") >>
    ELSE IF d = "audio_parameter_sync_system" THEN
        << LockedCall("lookup", "SamplerUnit") >>
        \o (IF v THEN << LockedCall("set", "SamplerUnit") >> ELSE << >>)
    ELSE << LockedCall("lookup", "") >>
         \o (IF v THEN << LockedCall("remove", "") >> ELSE << >>)

\* engine.graph_mut(closure) of system d for the entity whose node is n: the
\* lock is taken and the closure starts.
graph_mut(d, v, n) ==
    /\ HasEngine /\ Idle /\ eng.lock = NoLock
    /\ nextNode \in NodeIds
    /\ IF d \in {"audio_parameter_sync_system", "audio_cleanup_system"}
       THEN n \in NodeIds /\ (v <=> Contains(net, n) /\ (d = "audio_cleanup_system" \/ SamplerAt(net, n)))
       ELSE n = 0
    /\ eng' = [eng EXCEPT !.lock = [by |-> d, node |-> n, todo |-> Closure(d, v)]]
    /\ UNCHANGED <<engine, ent, net, nextNode, res, assets, cmds, pc, order, inserts, released>>

\* The next call of the closure, made while the lock is held.
LockedStep ==
    /\ eng.lock.todo # << >>
    /\ LET c == Head(eng.lock.todo)
           n == eng.lock.node
       IN /\ net' = IF c.op = "add" THEN [net EXCEPT ![nextNode] = Node(c.unit, FALSE)]
                    ELSE IF c.op = "remove" THEN [net EXCEPT ![n] = Removed(net[n])]
                    ELSE IF c.op = "set" /\ n # 0 THEN [net EXCEPT ![n].gain = SpawnVolume]
                    ELSE net
          /\ nextNode' = IF c.op = "add" THEN nextNode + 1 ELSE nextNode
    /\ eng' = [eng EXCEPT !.lock.todo = Tail(@)]
    /\ UNCHANGED <<engine, ent, res, assets, cmds, pc, order, inserts, released>>

\* The closure returned: the lock is released.
Unlock ==
    /\ eng.lock.by # "" /\ eng.lock.todo = << >>
    /\ eng' = [eng EXCEPT !.lock = NoLock]
    /\ UNCHANGED <<engine, ent, net, nextNode, res, assets, cmds, pc, order, inserts, released>>

\* The systems that hand engine.graph_mut a closure of more than one call,
\* at the grain of the single calls.
LockingSystems ==
    {"audio_playback_system", "spatial_audio_sync_system", "dsp_compressor_system",
     "dsp_gate_system", "audio_parameter_sync_system", "audio_cleanup_system"}

LockNext ==
    \/ \E d \in LockingSystems, v \in BOOLEAN, n \in NodeIds \cup {0} : graph_mut(d, v, n)
    \/ LockedStep
    \/ Unlock

SpecLock == InitPlain /\ [][LockNext]_vars

\* The build with the MIDI hardware input: the engine's MIDI thread and the
\* drain of its channel.
InputNext ==
    \/ \E m \in MidiEvents : ObserverPushes(m)
    \/ BeginFrame({"I"})
    \/ midi_input_event_system
    \/ EndOfFrame

SpecInput == InitMidi /\ [][InputNext]_vars

\* The build with the analysis, audio input and MIDI hardware features: the
\* six control intents, the device poll and a device that can disappear.
ControlKinds ==
    {"EnableLiveAnalysis", "DisableLiveAnalysis", "EnableAudioInput",
     "DisableAudioInput", "ConnectMidiDevice", "DisconnectMidiDevice"}

ControlNext ==
    \/ \E e \in Entities, k \in ControlKinds :
            /\ inserts < MaxInserts
            /\ InsertAny(e, k)
    \/ DeviceLost
    \/ BeginFrame({"C", "D"})
    \/ live_analysis_control_system
    \/ audio_input_control_system
    \/ midi_device_connect_system
    \/ midi_device_poll_system
    \/ EndOfFrame

SpecControl == InitMidi /\ [][ControlNext]_vars

\* The build with the export feature: exports that are requested, run and
\* end with one of two failure reasons or complete.
Reasons == {"disk full", "encoder error"}

ExportApplication ==
    \E e \in Entities :
        /\ inserts < MaxInserts
        /\ InsertTrigger(e, "StartExport")

ExportEnvironment ==
    \E e \in Entities :
        \/ \E s \in {"Running", "Complete"} : ExportProgresses(e, s, "")
        \/ \E r \in Reasons : ExportProgresses(e, "Failed", r)

ExportFrame ==
    \/ BeginFrame({"E", "F"})
    \/ export_start_system
    \/ export_poll_system
    \/ EndOfFrame

ExportNext == ExportApplication \/ ExportEnvironment \/ ExportFrame

SpecExport == Init /\ [][ExportNext]_vars

\* ------------------------------------------------------------------ properties
\* The triggers whose system waits for an asset.
AssetKinds == {k \in Kinds : AssetOf(k) # "none"}

\* The live nodes that were created for e.
NodesOf(g, e) == {n \in NodeIds : Contains(g, n) /\ g[n].owner = e}

\* The commands a step queued for e.
Queued(e) == SubSeq(CmdsFor(e, cmds'), Len(CmdsFor(e, cmds)) + 1, Len(CmdsFor(e, cmds')))

\* The step is the run of the system that reads trigger k.
Runs(k) == pc > 0 /\ pc' # pc /\ k \in TriggersOf(Schedule[pc])

\* C1: an asset-backed intent that was first observed while its asset was not
\* loaded is retried: one whole tick after the asset has loaded, the intent is
\* gone from the entity (executed or reported), it does not stay forever.
C1_RetriedAfterLoad ==
    [][(AtSystem("end_of_frame") /\ pc' = 0 /\ HasEngine) =>
         \A e \in Entities, k \in AssetKinds :
            (ent[e].alive /\ k \in ent[e].intents /\ Loaded(AssetOf(k)))
                => k \notin ent'[e].intents]_vars

\* A trigger that was seen while the asset was missing, with the asset there now.
C1_Stuck ==
    \E e \in Entities :
        /\ Idle /\ HasEngine /\ Loaded("audio")
        /\ "PlayAudio" \in ent[e].intents /\ "PlayAudio" \notin ent[e].added

\* C2: the run of a dispatcher that finds the asset of e's intent not loaded
\* leaves the intent on e, adds no node for e, queues no component for e (no
\* AudioEmitter, AudioPlaybackState, TimeStretchControl, DespawnOnFinish) and
\* reports no failure.
C2_DeferHasNoEffect ==
    [][\A e \in Entities, k \in AssetKinds :
          (Runs(k) /\ HasEngine /\ e \in AddedQuery(k) /\ ~Loaded(AssetOf(k))) =>
              /\ k \in ent'[e].intents
              /\ NodesOf(net', e) = NodesOf(net, e)
              /\ Queued(e) = << >>
              /\ ent'[e].executed[k] = 0
              /\ k \notin ent'[e].failed
              /\ [ent'[e] EXCEPT !.added = {}] = [ent[e] EXCEPT !.added = {}]]_vars

\* A tick deferred the PlayAudio of e: the trigger is still there, seen, and
\* the asset is missing.
C2_Deferred ==
    \E e \in Entities :
        /\ Idle /\ HasEngine /\ ~Loaded("audio")
        /\ "PlayAudio" \in ent[e].intents /\ "PlayAudio" \notin ent[e].added
        /\ ent[e].AudioEmitter = 0 /\ ent[e].AudioPlaybackState = "None"

\* C3: a trigger component of any kind is executed at most once; the tick that
\* executes it removes it from the entity, so between ticks no executed
\* trigger is left and a second execution needs a new insertion.
C3_ExecutedOnceAndErased ==
    \A e \in Entities, k \in Kinds :
        /\ ent[e].executed[k] <= 1
        /\ ent[e].executed[k] = 1 =>
              /\ k \in ent[e].intents
              /\ \E i \in 1..Len(cmds) : cmds[i] = Remove(e, k)
        /\ Idle => ent[e].executed[k] = 0

\* PlayAudio was executed on e, inserted again and executed again: both nodes
\* were created for e, and the second execution awaits the sync point.
C3_Reinserted ==
    \E e \in Entities :
        /\ inserts = 2 /\ nextNode = 3
        /\ ent[e].executed["PlayAudio"] = 1
        /\ ent[e].AudioEmitter = 1
        /\ net[1].owner = e /\ net[2].owner = e

\* The triggers whose dispatcher has an error arm after the asset is there.
FallibleKinds == {"LoadPlugin", "PlayNeuralSynth", "PlayNeuralEffect"}

\* C4: when a dispatcher's construction fails for good (unrecognized plugin
\* extension, plugin builder error, neural build error), the run queues the
\* removal of the intent and nothing else for the entity (no AudioEmitter, no
\* PluginEmitter), adds no node for it, and the intent is gone when the tick
\* ends, so nothing retries it.
C4_FailureDropsIntent ==
    [][\A e \in Entities, k \in FallibleKinds :
          /\ (k \notin ent[e].failed /\ k \in ent'[e].failed) =>
                /\ Queued(e) = << Remove(e, k) >>
                /\ NodesOf(net', e) = NodesOf(net, e)
                /\ ent'[e].executed[k] = 1
          /\ (k \in ent[e].failed /\ pc' = 0) =>
                /\ k \notin ent'[e].intents
                /\ k = "LoadPlugin" => "PluginEmitter" \notin ent'[e].comps \ ent[e].comps]_vars

\* The LoadPlugin of e, whose extension no builder matches, was reported.
C4_Unrecognized ==
    \E e \in Entities :
        /\ "LoadPlugin" \in ent[e].failed
        /\ PluginFormat(ent[e].ext) = "none"
        /\ NodesOf(net, e) = {}

\* C5: when the user removes the AudioEmitter or despawns the entity while its
\* node is in the graph, the node is out of the graph when the next tick ends.
C5_RemovedEmitterFreesNode ==
    \A n \in NodeIds : released[n] < 2

\* C6: between ticks every AudioEmitter, also of a Finished entity, names a
\* node that is in the graph.
C6_EmitterNodeInGraph ==
    Idle => \A e \in Entities :
                (ent[e].alive /\ ent[e].AudioEmitter # 0)
                    => Contains(net, ent[e].AudioEmitter)

\* C7: at most one live node of the graph was created for an entity, also
\* when two node-creating intents meet on the entity and when PlayAudio is
\* inserted again while the node of the first is live.
C7_OneLiveNodePerEntity ==
    \A e \in Entities : Cardinality(NodesOf(net, e)) <= 1

\* C8: the entity of a looping PlayAudio, with or without TimeStretch, does
\* not become Finished and audio_cleanup_system does not remove its node
\* while the AudioEmitter is there.
C8_LoopingNeverFinishes ==
    [][\A e \in Entities :
          LET n == ent[e].AudioEmitter IN
          (/\ ent[e].alive /\ Contains(net, n) /\ net[n].owner = e
           /\ net[n].kind \in {"SamplerUnit", "TimeStretchUnit"} /\ net[n].looping
           /\ ent[e].AudioPlaybackState = "Playing"
           /\ ent'[e].alive /\ ent'[e].AudioEmitter = n)
              => ent'[e].AudioPlaybackState = "Playing" /\ Contains(net', n)]_vars

\* C9: Finished does not change while the entity keeps its AudioEmitter;
\* Playing comes back only with a dispatched PlayAudio, which installs another
\* AudioEmitter.
C9_FinishedUntilNewEmitter ==
    [][\A e \in Entities :
          (ent[e].AudioPlaybackState = "Finished" /\ ent'[e].alive) =>
              \/ ent'[e].AudioPlaybackState = "Finished"
              \/ /\ ent'[e].AudioPlaybackState = "Playing"
                 /\ ent'[e].AudioEmitter # ent[e].AudioEmitter
                 /\ "PlayAudio" \in ent[e].intents
                 /\ "PlayAudio" \notin ent'[e].intents]_vars

\* The only entity with components finished node 1 and plays node 2.
C9_PlayingAgain ==
    \E e \in Entities :
        /\ inserts = 2 /\ nextNode = 3
        /\ ent[e].AudioPlaybackState = "Playing" /\ ent[e].AudioEmitter = 2
        /\ net[2].owner = e /\ ~Contains(net, 1)
        /\ \A x \in Entities \ {e} : ent[x] = BareEntity(TRUE)

\* C10: the run of audio_cleanup_system that finds the sampler of a Playing,
\* non-looping PlayAudio entity stopped sets Finished, takes the node out of
\* the graph, queues the despawn exactly when the entity has DespawnOnFinish,
\* and changes nothing of an entity that is not Playing.
C10_CleanupFinishesStopped ==
    [][(AtSystem("audio_cleanup_system") /\ pc' # pc /\ HasEngine) =>
         \A e \in Entities :
            LET n == ent[e].AudioEmitter IN
            /\ (/\ ent[e].alive /\ ent[e].AudioPlaybackState = "Playing"
                /\ Contains(net, n) /\ net[n].owner = e
                /\ net[n].kind \in {"SamplerUnit", "TimeStretchUnit"}
                /\ ~net[n].looping /\ ~net[n].playing)
                  => /\ ent'[e].AudioPlaybackState = "Finished"
                     /\ ~Contains(net', n)
                     /\ ent'[e].alive /\ ent'[e].AudioEmitter = n
                     /\ Queued(e) = IF "DespawnOnFinish" \in ent[e].comps
                                    THEN << Despawn(e) >> ELSE << >>
            /\ ent[e].AudioPlaybackState # "Playing"
                  => /\ ent'[e] = ent[e]
                     /\ Queued(e) = << >>
                     /\ \A m \in NodesOf(net, e) : net'[m] = net[m]]_vars

\* The one PlayAudio of the behaviour, without TimeStretch, ended: its entity
\* is Finished, survives, and its node is out of the graph.
C10_Finished ==
    \E e \in Entities :
        /\ Idle /\ inserts = 1
        /\ ent[e].alive /\ ent[e].AudioPlaybackState = "Finished"
        /\ "TimeStretchControl" \notin ent[e].comps
        /\ ent[e].AudioEmitter = 1 /\ ~Contains(net, 1)

\* ------------------------------------------------------------------ C11
\* The components a crashed plugin entity loses.
PluginComps == {"PluginEmitter", "PluginEditorOpen"}

\* The entity has the three removals of the crash handler queued.
Stripped(e, q) ==
    \E i \in 1..Len(q) : q[i].e = e /\ q[i].op = "remove" /\ q[i].c = "PluginEmitter"

\* C11: the run of plugin_crash_detect_system with an engine takes the node of
\* every entity with AudioEmitter and PluginEmitter whose plugin reports the
\* crash out of the graph and queues for it the removal of PluginEmitter,
\* PluginEditorOpen and AudioEmitter and nothing else (no despawn); entities
\* whose plugin has not crashed get no command and keep their node; the flush
\* at the end of that frame leaves the entity alive, without the three
\* components and with everything else as it was.
C11_CrashStripsPlugin ==
    [][/\ (AtSystem("plugin_crash_detect_system") /\ pc' # pc /\ HasEngine) =>
            \A e \in Entities :
                /\ ent'[e] = ent[e]
                /\ IF /\ ent[e].alive /\ ent[e].AudioEmitter # 0
                      /\ "PluginEmitter" \in ent[e].comps /\ ent[e].is_crashed
                   THEN /\ ~Contains(net', ent[e].AudioEmitter)
                        /\ Queued(e) = << Remove(e, "PluginEmitter"),
                                          Remove(e, "PluginEditorOpen"),
                                          Remove(e, "AudioEmitter") >>
                   ELSE /\ Queued(e) = << >>
                        /\ ent[e].AudioEmitter # 0 =>
                               net'[ent[e].AudioEmitter] = net[ent[e].AudioEmitter]
       /\ (AtSystem("end_of_frame") /\ pc' = 0) =>
            \A e \in Entities :
                Stripped(e, cmds) =>
                    /\ ent'[e].alive
                    /\ Len(CmdsFor(e, cmds)) = 3 =>
                          ent'[e] = [ent[e] EXCEPT !.comps = @ \ PluginComps,
                                                   !.AudioEmitter = 0,
                                                   !.is_crashed = FALSE]]_vars

\* Witness: at the end of a frame a crashed plugin whose editor was open is
\* about to be stripped, its node already out of the graph, next to a plugin
\* that has not crashed and keeps its node.
C11_Crashed ==
    /\ AtSystem("end_of_frame")
    /\ \E e, o \in Entities :
          /\ e # o
          /\ Stripped(e, cmds) /\ PluginComps \subseteq ent[e].comps
          /\ ent[e].AudioEmitter # 0 /\ ~Contains(net, ent[e].AudioEmitter)
          /\ "PluginEmitter" \in ent[o].comps /\ ~Stripped(o, cmds)
          /\ Contains(net, ent[o].AudioEmitter)

\* ------------------------------------------------------------------ C12
\* The units the current bindings of world w send channel c to.
BoundTo(w, c) ==
    {w[e].MidiReceiver.node_id : e \in {x \in Entities :
        w[x].alive /\ w[x].MidiReceiver # NoReceiver /\ w[x].MidiReceiver.channel = c}}

\* The units the current bindings of world w claim the fallback slot for.
Omni(w) ==
    BoundTo(w, -1) \cup {w[e].MpeReceiver : e \in {x \in Entities :
                                                    w[x].alive /\ w[x].MpeReceiver # 0}}

\* Table t is a table of the bindings of world w: a slot has an entry exactly
\* when some binding claims it, and the entry is the unit of such a binding.
Matches(t, w) ==
    /\ \A c \in MidiChannels :
          IF BoundTo(w, c) = {} THEN t.channel[c] = 0 ELSE t.channel[c] \in BoundTo(w, c)
    /\ IF Omni(w) = {} THEN t.fallback = 0 ELSE t.fallback \in Omni(w)

\* C12: when a tick with an engine ends, the committed routing table is the
\* table of the current MidiReceiver and MpeReceiver bindings: an entry for
\* channel c exactly when some receiver filters on c, a fallback entry exactly
\* when some unfiltered or MPE receiver exists, each entry naming a unit bound
\* to its slot, and no entry left over from a binding that is gone.
C12_TableMatchesBindings ==
    [][(AtSystem("end_of_frame") /\ pc' = 0 /\ HasEngine) =>
            Matches(eng'.routing, ent')]_vars

\* Witness: between two ticks the table is empty again after the last
\* receiver was removed (the audio thread still holds the table it read
\* before), and a tick has run since the removal.
C12_EmptiedAgain ==
    /\ Idle /\ HasEngine
    /\ eng.routing = EmptyTable /\ eng.observed.fallback # 0
    /\ \A e \in Entities : ent[e].MidiReceiver = NoReceiver /\ ent[e].MpeReceiver = 0
    /\ res.removed = NoRemovals

\* ------------------------------------------------------------------ C13
\* C13: while midi_routing_sync_system is inside its rebuild (clear, one
\* insert per binding, commit) the table the audio thread reads stays the
\* table committed before; it changes only in the step that ends the rebuild,
\* and then to the complete table of the bindings; every read of the audio
\* thread returns the committed table of that moment, so never a cleared or
\* partly filled one.
C13_NoPartialTable ==
    [][/\ eng'.routing # eng.routing =>
            /\ eng.rebuild > 0 /\ eng'.rebuild = 0
            /\ Matches(eng'.routing, ent)
       /\ eng'.observed # eng.observed =>
            /\ eng'.observed = eng.routing
            /\ eng'.routing = eng.routing]_vars

\* Witness: the rebuild has cleared the working table and filled it in part,
\* and the audio thread has read the table committed before, which has
\* entries the working table lacks.
C13_ReadDuringRebuild ==
    /\ AtSystem("midi_routing_sync_system") /\ eng.rebuild > 1
    /\ eng.observed = eng.routing
    /\ eng.working # eng.routing
    /\ eng.working # EmptyTable
    /\ \E c \in MidiChannels : eng.routing.channel[c] # 0 /\ eng.working.channel[c] = 0

\* ------------------------------------------------------------------ C14
\* Command c is in queue q.
Holds(q, c) == \E i \in 1..Len(q) : q[i] = c

\* The commands of q that do not touch component k.
Besides(q, k) == SelectSeq(q, LAMBDA c : c.c # k)

\* The entities whose StopRecording the step consumed with data returned.
Stopped == {e \in AddedQuery("StopRecording") : Holds(Queued(e), Insert(e, "RecordingResult"))}

\* C14: in a run of recording_stop_system, for the StopRecording triggers
\* whose stop_recording returned data: the removal of RecordingActive is
\* queued for exactly the entities whose RecordingActive is on a stopped
\* channel, and the entity that carried StopRecording has the removal of the
\* trigger and the RecordingResult queued; the flush that ends the frame
\* installs the RecordingResult, takes the trigger away and leaves every
\* RecordingActive no command was queued for as it was.
C14_StopClearsItsChannel ==
    [][/\ (Runs("StopRecording") /\ HasEngine) =>
            LET channels == {ent[e].stop_channel : e \in Stopped} IN
            /\ \A a \in Entities :
                  Holds(Queued(a), Remove(a, "RecordingActive")) <=>
                      /\ ent[a].alive /\ ent[a].RecordingActive # NoRecording
                      /\ ent[a].RecordingActive.channel_index \in channels
            /\ \A e \in Stopped :
                  Besides(Queued(e), "RecordingActive") =
                      << Remove(e, "StopRecording"), Insert(e, "RecordingResult") >>
       /\ (AtSystem("end_of_frame") /\ pc' = 0) =>
            \A e \in Entities :
                /\ Holds(cmds, Insert(e, "RecordingResult")) =>
                      /\ "RecordingResult" \in ent'[e].comps
                      /\ "StopRecording" \notin ent'[e].intents
                /\ (\A i \in 1..Len(cmds) :
                        ~(cmds[i].e = e /\ cmds[i].c = "RecordingActive")) =>
                      ent'[e].RecordingActive = ent[e].RecordingActive
                /\ (/\ Holds(cmds, Remove(e, "RecordingActive"))
                    /\ \A i \in 1..Len(cmds) :
                          ~(cmds[i].e = e /\ cmds[i].c = "RecordingActive"
                                         /\ cmds[i].op = "insert")) =>
                      ent'[e].RecordingActive = NoRecording]_vars

\* Witness: two entities record on different channels; a StopRecording for
\* the first one's channel, carried by the second, returned data: at the end
\* of the frame the first is about to lose its RecordingActive and the
\* second to keep its own and to get the RecordingResult.
C14_OtherChannelKept ==
    /\ AtSystem("end_of_frame")
    /\ \E a, b \in Entities :
          /\ a # b
          /\ ent[a].RecordingActive # NoRecording /\ ent[b].RecordingActive # NoRecording
          /\ ent[a].RecordingActive.channel_index # ent[b].RecordingActive.channel_index
          /\ Holds(cmds, Remove(a, "RecordingActive"))
          /\ ~Holds(cmds, Remove(b, "RecordingActive"))
          /\ Holds(cmds, Insert(b, "RecordingResult"))

\* ------------------------------------------------------------------ C15
\* The commands of q that touch component k.
Touching(q, k) == SelectSeq(q, LAMBDA c : c.c = k)

\* C15: in a run of recording_stop_system, a StopRecording whose
\* stop_recording failed has exactly the removal of the trigger queued, so no
\* RecordingResult; no command touches the RecordingActive of an entity
\* unless another StopRecording of the same run stopped its channel; the flush
\* that ends the frame takes the trigger away and installs no RecordingResult
\* on the entity.
C15_FailedStopKeepsActive ==
    [][/\ (Runs("StopRecording") /\ HasEngine) =>
            LET failing == AddedQuery("StopRecording") \ Stopped
                channels == {ent[e].stop_channel : e \in Stopped}
            IN /\ \A e \in failing :
                     Besides(Queued(e), "RecordingActive") = << Remove(e, "StopRecording") >>
               /\ \A a \in Entities :
                     ent[a].RecordingActive.channel_index \notin channels =>
                        /\ Touching(Queued(a), "RecordingActive") = << >>
                        /\ ent'[a].RecordingActive = ent[a].RecordingActive
       /\ (AtSystem("end_of_frame") /\ pc' = 0) =>
            \A e \in Entities :
                "StopRecording" \in ent[e].failed =>
                    /\ "StopRecording" \notin ent'[e].intents
                    /\ "RecordingResult" \in ent'[e].comps => "RecordingResult" \in ent[e].comps
                    /\ Touching(CmdsFor(e, cmds), "RecordingActive") = << >> =>
                          ent'[e].RecordingActive = ent[e].RecordingActive]_vars

\* Witness: at the end of a frame the entity that records on a channel
\* carries a StopRecording for that channel that failed; it is about to lose
\* the trigger and keeps its RecordingActive.
C15_StopFailed ==
    /\ AtSystem("end_of_frame")
    /\ \E e \in Entities :
          /\ "StopRecording" \in ent[e].failed
          /\ ent[e].RecordingActive # NoRecording
          /\ ent[e].RecordingActive.channel_index = ent[e].stop_channel
          /\ CmdsFor(e, cmds) = << Remove(e, "StopRecording") >>

\* ------------------------------------------------------------------ C16
\* C16: in a run of recording_start_system, a StartRecording whose
\* start_recording succeeded has the removal of the trigger and a
\* RecordingActive with the trigger's channel_index, source and mode queued,
\* one that failed only the removal of the trigger; an executed trigger is
\* never executed again; the flush that ends the frame takes the trigger
\* away, installs that RecordingActive after a success when nothing else of
\* the frame touched the component, and no RecordingActive after a failure.
C16_StartBecomesActive ==
    [][/\ (Runs("StartRecording") /\ HasEngine) =>
            \A e \in AddedQuery("StartRecording") :
                /\ ent[e].executed["StartRecording"] = 0
                /\ IF "StartRecording" \in ent'[e].failed
                   THEN Queued(e) = << Remove(e, "StartRecording") >>
                   ELSE Queued(e) = << Remove(e, "StartRecording"),
                                      InsertActive(e, [channel_index |-> ent[e].start.channel_index,
                                                       source |-> ent[e].start.source,
                                                       mode |-> ent[e].start.mode]) >>
       /\ (AtSystem("end_of_frame") /\ pc' = 0) =>
            \A e \in Entities :
                ent[e].executed["StartRecording"] > 0 =>
                    /\ "StartRecording" \notin ent'[e].intents
                    /\ IF "StartRecording" \in ent[e].failed
                       THEN Touching(CmdsFor(e, cmds), "RecordingActive") = << >> =>
                                ent'[e].RecordingActive = ent[e].RecordingActive
                       ELSE Len(Touching(CmdsFor(e, cmds), "RecordingActive")) = 1 =>
                                ent'[e].RecordingActive = ent[e].start]_vars

\* Witness: at the end of a frame one StartRecording with a mode other than
\* the default has succeeded and another has failed.
C16_StartedAndFailed ==
    /\ AtSystem("end_of_frame")
    /\ \E e, f \in Entities :
          /\ ent[e].executed["StartRecording"] = 1 /\ "StartRecording" \notin ent[e].failed
          /\ ent[e].start.mode = "Overdub"
          /\ Holds(cmds, InsertActive(e, ent[e].start))
          /\ "StartRecording" \in ent[f].failed
          /\ CmdsFor(f, cmds) = << Remove(f, "StartRecording") >>

\* ------------------------------------------------------------------ C17
\* The step is a sync point: the queued commands are applied.
Flushes == (AtSystem("apply_deferred") \/ AtSystem("end_of_frame")) /\ pc' # pc

\* The step is a run of export_poll_system.
Polls == AtSystem("export_poll_system") /\ pc' # pc

\* C17: an entity gets ExportInProgress only in a flush that erases a
\* StartExport the start system executed; it gets ExportComplete
\* (ExportFailed) only in a flush of a tick in which it carried an
\* ExportInProgress whose handle reported Complete (Failed); the flush that
\* installs ExportComplete leaves no ExportInProgress unless a new StartExport
\* was consumed in that tick; and a run of export_poll_system queues nothing
\* for and changes nothing on an entity without ExportInProgress.
C17_ExportLifecycle ==
    [][\A e \in Entities :
        /\ (ent[e].ExportInProgress = "None" /\ ent'[e].ExportInProgress # "None") =>
              /\ Flushes
              /\ ent[e].executed["StartExport"] > 0
              /\ "StartExport" \notin ent'[e].intents
        /\ ("ExportComplete" \in ent'[e].comps \ ent[e].comps) =>
              Flushes /\ ent[e].ExportInProgress = "Complete"
        /\ ("ExportFailed" \in ent'[e].comps \ ent[e].comps) =>
              Flushes /\ ent[e].ExportInProgress = "Failed"
        /\ (Flushes /\ Holds(cmds, Insert(e, "ExportComplete"))) =>
              /\ "ExportComplete" \in ent'[e].comps
              /\ ent'[e].ExportInProgress = "None" \/ ent[e].executed["StartExport"] > 0
        /\ (Polls /\ ent[e].ExportInProgress = "None") =>
              Queued(e) = << >> /\ ent'[e] = ent[e]]_vars

\* Witness: at the end of a frame in which export_poll_system ran, one entity
\* carries ExportComplete and no ExportInProgress and has nothing queued,
\* while the export of another entity is still running.
C17_CompleteStays ==
    /\ AtSystem("end_of_frame")
    /\ \E e, f \in Entities :
          /\ "ExportComplete" \in ent[e].comps /\ ent[e].ExportInProgress = "None"
          /\ CmdsFor(e, cmds) = << >>
          /\ ent[f].ExportInProgress = "Running"

\* ------------------------------------------------------------------ C18
\* C18: a run of export_poll_system changes no component itself and queues,
\* per entity with ExportInProgress, by the status of its handle: Complete,
\* the removal of ExportInProgress and ExportComplete; Failed(reason), the
\* removal of ExportInProgress and an ExportFailed with that reason; Running
\* or Pending, nothing.  The flush that ends the frame applies exactly that.
C18_PollByStatus ==
    [][/\ Polls =>
            /\ ent' = ent
            /\ \A e \in Entities :
                  Queued(e) =
                      IF ent[e].ExportInProgress = "Complete"
                          THEN << Remove(e, "ExportInProgress"), Insert(e, "ExportComplete") >>
                      ELSE IF ent[e].ExportInProgress = "Failed"
                          THEN << Remove(e, "ExportInProgress"),
                                  Cmd(e, "insert", "ExportFailed", 0, ent[e].reason, NoRecording) >>
                      ELSE << >>
       /\ (AtSystem("end_of_frame") /\ pc' = 0) =>
            \A e \in Entities :
                IF CmdsFor(e, cmds) = << >> THEN ent'[e] = ent[e]
                ELSE Len(CmdsFor(e, cmds)) = 2 =>
                    /\ ent[e].ExportInProgress = "Complete" =>
                          ent'[e] = [ent[e] EXCEPT !.ExportInProgress = "None",
                                                   !.comps = @ \cup {"ExportComplete"}]
                    /\ ent[e].ExportInProgress = "Failed" =>
                          ent'[e] = [ent[e] EXCEPT !.ExportInProgress = "None",
                                                   !.reason = "",
                                                   !.error = ent[e].reason,
                                                   !.comps = @ \cup {"ExportFailed"}]]_vars

\* Witness: at the end of a frame the poll has queued an ExportFailed with
\* the reason of the handle for one entity and nothing for another whose
\* export is still running.
C18_FailedWithReason ==
    /\ AtSystem("end_of_frame")
    /\ \E e, f \in Entities :
          /\ ent[e].ExportInProgress = "Failed" /\ ent[e].reason = "encoder error"
          /\ Holds(cmds, InsertFailed(e, "encoder error"))
          /\ ent[f].ExportInProgress = "Running" /\ CmdsFor(f, cmds) = << >>

\* ------------------------------------------------------------------ C19
\* The systems ordered after audio_playback_system.
LaterSystems ==
    {"audio_parameter_sync_system", "time_stretch_sync_system", "audio_cleanup_system"}

\* The components audio_playback_system queues commands for.
PlaybackComps ==
    {"PlayAudio", "AudioEmitter", "AudioPlaybackState", "TimeStretchControl",
     "DespawnOnFinish"}

\* The step is a run of system `name`.
RunOf(name) == AtSystem(name) /\ pc' # pc

\* After the step, system `name` is still to come in this frame.
Ahead(name) == pc' > 0 /\ \E j \in pc'..Len(Schedule) : Schedule[j] = name

Controlled == {e \in Entities : \E n \in NodeIds : Holds(Queued(e), InsertControl(e, n))}

\* C20: a run of audio_playback_system queues a TimeStretchControl for an
\* entity exactly when it dispatches the entity's PlayAudio and the entity
\* carries TimeStretch at that moment.  The node it adds for such an entity
\* is the stretch unit around the sampler, the control is the one of that
\* node, and the node's two atomics hold the TimeStretch's stretch_factor and
\* pitch_cents; for an entity without TimeStretch the node is the sampler
\* itself.  The sync point puts the control on the entity, and what
\* time_stretch_sync_system stores through a control arrives in the atomics
\* of the node the control was taken from and in no other node.
C20_ControlIffStretch ==
    [][/\ RunOf("audio_playback_system") =>
            \A e \in Entities :
                /\ e \in Controlled <=>
                      (Queued(e) # << >> /\ "TimeStretch" \in ent[e].comps)
                /\ \A n \in NodeIds :
                      Holds(Queued(e), InsertEmitter(e, n)) =>
                          IF "TimeStretch" \in ent[e].comps
                          THEN /\ net'[n].kind = "TimeStretchUnit"
                               /\ Holds(Queued(e), InsertControl(e, n))
                               /\ net'[n].stretch_factor = ent[e].TimeStretch.stretch_factor
                               /\ net'[n].pitch_cents = ent[e].TimeStretch.pitch_cents
                          ELSE net'[n].kind = "SamplerUnit"
       /\ RunOf("apply_deferred") =>
            \A e \in Entities, n \in NodeIds :
                (ent[e].alive /\ Holds(cmds, InsertControl(e, n))) =>
                    /\ ent'[e].TimeStretchControl = n /\ ent'[e].AudioEmitter = n
                    /\ "TimeStretchControl" \in ent'[e].comps
       /\ RunOf("time_stretch_sync_system") =>
            \A n \in NodeIds :
                net'[n] # net[n] =>
                    \E e \in Entities :
                        /\ ent[e].TimeStretchControl = n
                        /\ net'[n] = [net[n] EXCEPT
                                        !.stretch_factor = ent[e].TimeStretch.stretch_factor,
                                        !.pitch_cents = ent[e].TimeStretch.pitch_cents]]_vars

\* Witness: the sync point is about to apply the commands of a dispatch whose
\* entity carried a TimeStretch the application had changed before the frame:
\* the AudioEmitter and the TimeStretchControl queued name the same new
\* stretch unit, and its atomics hold the changed values.
C20_WrappedWithControl ==
    /\ AtSystem("apply_deferred")
    /\ \E e \in Entities, n \in NodeIds :
          /\ Holds(cmds, InsertEmitter(e, n)) /\ Holds(cmds, InsertControl(e, n))
          /\ net[n].kind = "TimeStretchUnit"
          /\ ent[e].TimeStretch # SpawnStretch
          /\ net[n].stretch_factor = ent[e].TimeStretch.stretch_factor
          /\ net[n].pitch_cents = ent[e].TimeStretch.pitch_cents
          /\ net[n].pitch_cents # 0

\* ------------------------------------------------------------------ C21
\* C21: without a TuttiEngineResource no step of a frame changes anything of
\* this layer: every mirrored resource (and LiveAnalysisData.is_live) keeps
\* its value, the engine-side state and the graph are untouched, no command
\* is queued, and every entity keeps its triggers with their payloads, its
\* handles and its markers; only the Added filters of the systems move on.
C21_NoEngineNoEffect ==
    [][(~HasEngine /\ (pc # 0 \/ pc' # 0)) =>
          /\ res'.mirrors = res.mirrors /\ res'.is_live = res.is_live
          /\ res'.connected = res.connected
          /\ eng' = eng /\ net' = net /\ nextNode' = nextNode
          /\ cmds' = << >>
          /\ \A e \in Entities : ent'[e] = [ent[e] EXCEPT !.added = ent'[e].added]]_vars

\* Witness: a frame without engine ends; the application had written the
\* TransportState and an entity still carries the trigger a system has
\* looked at.
C21_Passed ==
    /\ ~HasEngine /\ AtSystem("end_of_frame")
    /\ res.mirrors.TransportState = UserValue("TransportState")
    /\ \E e \in Entities : "PlayAudio" \in ent[e].intents /\ ent[e].added = {}

\* ------------------------------------------------------------------ C22
\* A tick with an engine ends.
TickEnds == AtSystem("end_of_frame") /\ pc' = 0 /\ HasEngine

\* C22: after every tick with an engine every field of TransportState equals
\* the value of the engine's transport (the loop bounds whenever the
\* transport has a loop range), and is_playing and is_paused are never both
\* true.
C22_TransportMirrorsEngine ==
    [][TickEnds =>
          LET m == res'.mirrors.TransportState
              t == eng'.published.transport
          IN /\ m.beat = t.current_beat /\ m.tempo = t.tempo
             /\ m.is_playing = t.is_playing /\ m.is_paused = t.is_paused
             /\ m.is_recording = t.is_recording /\ m.is_looping = t.is_loop_enabled
             /\ t.loop_range # << >> =>
                   m.loop_start = t.loop_range[1] /\ m.loop_end = t.loop_range[2]
             /\ m.time_sig_numerator = t.time_signature[1]
             /\ m.time_sig_denominator = t.time_signature[2]
             /\ ~(m.is_playing /\ m.is_paused)]_vars

\* A tick has ended and the mirror reports a transport that plays and is
\* paused: the engine plays, is_playing was copied, is_paused still holds
\* its default.
C22_PlayingAndPaused ==
    /\ Idle /\ HasEngine
    /\ eng.published.transport.is_playing /\ ~eng.published.transport.is_paused
    /\ res.mirrors.TransportState.is_playing /\ res.mirrors.TransportState.is_paused

\* ------------------------------------------------------------------ C23
\* C23: after a run of device_state_sync_system with an engine the mirrored
\* output device list is the engine's list, and after a run of
\* audio_input_sync_system the mirrored input device list is the engine's.
C23_DeviceListsFollow ==
    [][/\ (RunOf("device_state_sync_system") /\ HasEngine) =>
            res'.mirrors.AudioDeviceState.output_devices = eng.published.output_devices
       /\ (RunOf("audio_input_sync_system") /\ HasEngine) =>
            res'.mirrors.AudioInputState.devices = eng.published.input_devices]_vars

\* A tick has ended and the mirror still lists the device that the engine's
\* list of equal length no longer has.
C23_StaleList ==
    /\ Idle /\ HasEngine
    /\ res.mirrors.AudioDeviceState.output_devices = << "a" >>
    /\ eng.published.output_devices = << "b" >>
    /\ res.mirrors.AudioDeviceState.is_running

\* ------------------------------------------------------------------ C24
\* The position of a system in the schedule of the frame the step is in.
SlotOf(name) ==
    CHOOSE i \in 1..Len(ScheduleOf(order')) : ScheduleOf(order')[i] = name

\* The nodes a step adds to the graph for entity e.
AddedFor(e) ==
    {n \in NodeIds : ~Contains(net, n) /\ Contains(net', n) /\ net'[n].owner = e}

\* C24: in every run of spatial_audio_sync_system, an emitter observed with
\* an empty panner_node_id either gets exactly one new SpatialPannerNode,
\* fed by the emitter's node and piped to the output, or (creation failed)
\* keeps the empty id, gets no node and has neither position nor gain
\* written; an emitter that has a panner keeps it and gets no other; every
\* node the run adds is such a panner; and no frame passes the system's slot
\* without running it while an emitter is without a panner.
C24_OnePannerPerEmitter ==
    [][/\ (AtSystem("spatial_audio_sync_system") /\ HasEngine) =>
            /\ \A e \in SpatialEmitters :
                 LET old == ent[e].SpatialAudio.panner_node_id
                     new == ent'[e].SpatialAudio.panner_node_id
                 IN IF old # 0 THEN new = old /\ AddedFor(e) = {}
                    ELSE IF new # 0
                    THEN /\ AddedFor(e) = {new}
                         /\ net'[new].kind = "SpatialPannerNode"
                         /\ net'[new].source = ent[e].AudioEmitter
                         /\ net'[new].piped
                    ELSE /\ AddedFor(e) = {}
                         /\ net'[ent[e].AudioEmitter] = net[ent[e].AudioEmitter]
            /\ \A n \in NodeIds :
                 (~Contains(net, n) /\ Contains(net', n)) =>
                    \E e \in Unpanned : AddedFor(e) = {n}
       /\ (HasEngine /\ (\E i \in 1..Len(ScheduleOf(order')) :
                    ScheduleOf(order')[i] = "spatial_audio_sync_system")
              /\ pc < SlotOf("spatial_audio_sync_system")
              /\ pc' > SlotOf("spatial_audio_sync_system")) =>
            \A e \in Entities :
                (ent'[e].AudioEmitter # 0 /\ "SpatialAudio" \in ent'[e].comps) =>
                    ent'[e].SpatialAudio.panner_node_id # 0
      ]_vars

\* Witness: an emitter whose panner was created, and wired, in a later tick
\* than the one in which the creation failed.
C24_CreatedAfterFailure ==
    \E e \in Entities :
        /\ "SpatialAudio" \in ent[e].failed
        /\ ent[e].SpatialAudio.panner_node_id # 0
        /\ net[ent[e].SpatialAudio.panner_node_id].kind = "SpatialPannerNode"
        /\ net[ent[e].SpatialAudio.panner_node_id].source = ent[e].AudioEmitter
        /\ SamplerAt(net, ent[e].AudioEmitter)

\* ------------------------------------------------------------------ C25
\* The emitters whose gain the run of spatial_audio_sync_system wrote.
Attenuated ==
    {e \in SpatialEmitters :
        ent'[e].SpatialAudio.panner_node_id # 0 /\ SamplerAt(net', ent[e].AudioEmitter)}

\* C25: of the gains one run of spatial_audio_sync_system writes, the gain
\* of an emitter at max_distance or farther is 0, and of two emitters with
\* the same model, ref_distance and max_distance (0 < ref_distance <=
\* max_distance), both at ref_distance or farther, the farther one's gain is
\* not the larger.
C25_AttenuationFallsOff ==
    [][(AtSystem("spatial_audio_sync_system") /\ HasEngine) =>
        \A a \in Attenuated, b \in Attenuated :
            LET sa == ent[a].SpatialAudio
                sb == ent[b].SpatialAudio
            IN /\ Heard(a)[3] >= sa.max_distance => net'[ent[a].AudioEmitter].gain = 0
               /\ ( /\ sa.attenuation = sb.attenuation
                    /\ sa.ref_distance = sb.ref_distance
                    /\ sa.max_distance = sb.max_distance
                    /\ 0 < sa.ref_distance /\ sa.ref_distance <= sa.max_distance
                    /\ sa.ref_distance <= Heard(a)[3] /\ Heard(a)[3] <= Heard(b)[3] )
                  => net'[ent[b].AudioEmitter].gain <= net'[ent[a].AudioEmitter].gain
      ]_vars

\* Witness: right after a run, one emitter is heard between ref_distance and
\* max_distance and another exactly at max_distance, which is silent.
C25_SilentAtMaxDistance ==
    /\ AtSystem("audio_cleanup_system")
    /\ \E a \in SpatialEmitters, b \in SpatialEmitters :
        /\ ent[a].SpatialAudio.panner_node_id # 0 /\ ent[b].SpatialAudio.panner_node_id # 0
        /\ ent[a].SpatialAudio.ref_distance <= Heard(a)[3]
        /\ Heard(a)[3] < Heard(b)[3]
        /\ Heard(b)[3] = ent[b].SpatialAudio.max_distance
        /\ net[ent[a].AudioEmitter].gain > 0
        /\ net[ent[a].AudioEmitter].gain < Unity
        /\ net[ent[b].AudioEmitter].gain = 0

\* ------------------------------------------------------------------ C26
\* The scenario: a single listener at the origin with the identity
\* orientation, emitter e at (10, 0, 0) with ref_distance 1, max_distance 100
\* and the inverse-distance model, processed by this run of the system.
Scenario(e) ==
    /\ AtSystem("spatial_audio_sync_system") /\ HasEngine
    /\ Listener # 0 /\ ent[Listener].GlobalTransform = Identity
    /\ e \in Attenuated
    /\ ent[e].GlobalTransform.translation = << 10, 0, 0 >>
    /\ ent[e].SpatialAudio.attenuation = "InverseDistance"
    /\ ent[e].SpatialAudio.ref_distance = 1
    /\ ent[e].SpatialAudio.max_distance = 100

\* C26 as stated: in the scenario the system pushes azimuth 90 and elevation
\* 0 to the panner and writes the gain 1/10 to the emitter.
C26_AzimuthNinety ==
    [][\A e \in Entities :
        Scenario(e) =>
            /\ net'[ent'[e].SpatialAudio.panner_node_id].azimuth = 90
            /\ net'[ent'[e].SpatialAudio.panner_node_id].elevation = 0
            /\ net'[ent[e].AudioEmitter].gain = Unity \div 10
      ]_vars

\* C26, amended: in the scenario the system pushes azimuth -90 (the emitter
\* is on the listener's right, and the azimuth is atan2(-x, -z)) and
\* elevation 0 to the panner and writes the gain 1/10 to the emitter.
C26_AzimuthMinusNinety ==
    [][\A e \in Entities :
        Scenario(e) =>
            /\ net'[ent'[e].SpatialAudio.panner_node_id].azimuth = -90
            /\ net'[ent'[e].SpatialAudio.panner_node_id].elevation = 0
            /\ net'[ent[e].AudioEmitter].gain = Unity \div 10
      ]_vars

\* Witness: the scenario after a tick, the panner at azimuth -90.
C26_HeardOnTheRight ==
    \E e \in SpatialEmitters :
        /\ Listener # 0 /\ ent[Listener].GlobalTransform = Identity
        /\ ent[e].GlobalTransform.translation = << 10, 0, 0 >>
        /\ ent[e].SpatialAudio.panner_node_id # 0
        /\ [ent[e].SpatialAudio EXCEPT !.panner_node_id = 0] = SpawnSpatial
        /\ net[ent[e].SpatialAudio.panner_node_id].kind = "SpatialPannerNode"
        /\ net[ent[e].SpatialAudio.panner_node_id].azimuth = -90
        /\ net[ent[e].SpatialAudio.panner_node_id].elevation = 0
        /\ net[ent[e].AudioEmitter].gain = Unity \div 10

\* ------------------------------------------------------------------ C29
\* C29 as stated: at the end of every tick, the gain of the sampler of every
\* emitter that has a panner (the emitters spatial_audio_sync_system
\* processed in the tick) is the attenuation computed from the emitter's
\* distance in this tick.
C29_GainIsAttenuation ==
    (AtSystem("end_of_frame") /\ HasEngine) =>
        \A e \in SpatialEmitters :
            (ent[e].SpatialAudio.panner_node_id # 0 /\ SamplerAt(net, ent[e].AudioEmitter))
                => net[ent[e].AudioEmitter].gain = Attenuation(e)

\* Reachable: a tick ends with the gain of a processed emitter at the
\* entity's AudioVolume, which audio_parameter_sync_system wrote after
\* spatial_audio_sync_system, and not at the attenuation.
C29_VolumeOverAttenuation ==
    /\ AtSystem("end_of_frame") /\ HasEngine /\ order = "Z"
    /\ \E e \in SpatialEmitters :
        /\ ent[e].SpatialAudio.panner_node_id # 0
        /\ SamplerAt(net, ent[e].AudioEmitter)
        /\ ent[e].AudioVolume # NoVolume
        /\ net[ent[e].AudioEmitter].gain = ent[e].AudioVolume
        /\ net[ent[e].AudioEmitter].gain # Attenuation(e)

\* ------------------------------------------------------------------ C27
\* The plugin kind that belongs to extension x, "none" for every other one.
KindOf(x) ==
    IF x \in {"vst3", "VST3"} THEN "VST3"
    ELSE IF x = "clap" THEN "CLAP"
    ELSE IF x \in {"dll", "so", "vst"} THEN "VST2"
    ELSE "none"

\* C27: in a run of plugin_load_system with an engine, every LoadPlugin it
\* observes either is built by the builder of the kind its extension names
\* (compared without case), in which case one node of that kind is added and
\* the removal of LoadPlugin and the insertion of AudioEmitter and
\* PluginEmitter are queued together, or fails, in which case no node is added
\* and only the removal of LoadPlugin is queued; an unknown or missing
\* extension always fails.  The flush of such a queue takes LoadPlugin away
\* and installs both components or neither.
C27_KindFromExtension ==
    [][/\ (AtSystem("plugin_load_system") /\ pc' # pc /\ HasEngine) =>
            \A e \in AddedQuery("LoadPlugin") :
                \/ /\ KindOf(ent[e].ext) # "none"
                   /\ \E n \in NodeIds :
                        /\ AddedFor(e) = {n}
                        /\ net'[n].format = KindOf(ent[e].ext)
                        /\ Queued(e) = << Remove(e, "LoadPlugin"), InsertEmitter(e, n),
                                          Insert(e, "PluginEmitter") >>
                \/ /\ AddedFor(e) = {}
                   /\ Queued(e) = << Remove(e, "LoadPlugin") >>
       /\ (AtSystem("end_of_frame") /\ pc' = 0) =>
            \A e \in Entities :
                LET q == CmdsFor(e, cmds) IN
                /\ (Len(q) = 3 /\ q[1] = Remove(e, "LoadPlugin")
                        /\ q[3] = Insert(e, "PluginEmitter")) =>
                      /\ "LoadPlugin" \notin ent'[e].intents
                      /\ ent'[e].AudioEmitter = q[2].n /\ q[2].n # 0
                      /\ "PluginEmitter" \in ent'[e].comps
                /\ q = << Remove(e, "LoadPlugin") >> =>
                      /\ "LoadPlugin" \notin ent'[e].intents
                      /\ ent'[e].AudioEmitter = ent[e].AudioEmitter
                      /\ ("PluginEmitter" \in ent'[e].comps) = ("PluginEmitter" \in ent[e].comps)
      ]_vars

\* Witness: after a run of plugin_load_system, a path that ends in .VST3 has
\* a VST3 unit in the graph and both components queued, next to a .txt path
\* for which only the removal of LoadPlugin is queued.
C27_UppercaseBuilt ==
    \E e, o \in Entities, n \in NodeIds :
        /\ e # o
        /\ "LoadPlugin" \in ent[e].intents /\ ent[e].ext = "VST3"
        /\ net[n].format = "VST3" /\ net[n].owner = e
        /\ CmdsFor(e, cmds) = << Remove(e, "LoadPlugin"), InsertEmitter(e, n),
                                 Insert(e, "PluginEmitter") >>
        /\ "LoadPlugin" \in ent[o].intents /\ ent[o].ext = "txt"
        /\ CmdsFor(o, cmds) = << Remove(o, "LoadPlugin") >>
        /\ NodesOf(net, o) = {}

\* ------------------------------------------------------------------ C28
\* C28 as stated: between two ticks, an entity carries RecordingActive for a
\* channel only if the engine records on that channel.
C28_ActiveOnlyWhileRecording ==
    (Idle /\ HasEngine) =>
        \A e \in Entities :
            (ent[e].alive /\ ent[e].RecordingActive # NoRecording) =>
                ent[e].RecordingActive.channel_index \in eng.recording

\* Reachable: a tick in which recording_start_system ran before
\* recording_stop_system has ended; the stop of the channel succeeded (its
\* RecordingResult is there), the engine does not record on the channel, and
\* the entity that started the recording in that tick carries RecordingActive
\* for it.
C28_ActiveAfterStop ==
    /\ Idle /\ HasEngine
    /\ \E e, o \in Entities :
        /\ e # o
        /\ ent[e].RecordingActive # NoRecording
        /\ ent[e].RecordingActive.channel_index \notin eng.recording
        /\ "RecordingResult" \in ent[o].comps
        /\ ent[o].intents = {} /\ ent[e].intents = {}
        /\ inserts = 2

\* ------------------------------------------------------------------ C30
\* A receiver of kind k was removed since the previous run of
\* midi_routing_sync_system: the system runs in every tick, and the removals
\* of the time between two ticks are the events of the newer buffer.
RemovedSince(k) == res.removed[k][2] > 0

\* C30 as stated: a run of midi_routing_sync_system starts a rebuild of the
\* routing table (clear, inserts, commit) only if a MidiReceiver or
\* MpeReceiver was added, changed or removed since its previous run.
C30_RebuildOnlyOnChange ==
    [][(AtSystem("midi_routing_sync_system") /\ eng.rebuild = 0 /\ eng'.rebuild = 1) =>
            \/ ChangedQuery("MidiReceiver") \/ ChangedQuery("MpeReceiver")
            \/ RemovedSince("MidiReceiver") \/ RemovedSince("MpeReceiver")
      ]_vars

\* Reachable: midi_routing_sync_system is about to run in a tick before
\* which no receiver was added, changed or removed, and a removal event of an
\* earlier tick is still unread, so the run rebuilds the table.
C30_LeftoverRemoval ==
    /\ AtSystem("midi_routing_sync_system") /\ eng.rebuild = 0 /\ HasEngine
    /\ ~ChangedQuery("MidiReceiver") /\ ~ChangedQuery("MpeReceiver")
    /\ ~RemovedSince("MidiReceiver") /\ ~RemovedSince("MpeReceiver")
    /\ HasChanges

\* ------------------------------------------------------------------ C31
\* The entities that carry a MidiReceiver of channel c (-1: unfiltered), and
\* those that carry an MpeReceiver.
MidiBound(c) ==
    {e \in Entities : ent[e].alive /\ ent[e].MidiReceiver # NoReceiver
                                   /\ ent[e].MidiReceiver.channel = c}

MpeBound == {e \in Entities : ent[e].alive /\ ent[e].MpeReceiver # 0}

\* The entity of S that the query yields last.
LastOf(S) == CHOOSE e \in S : \A o \in S : o <= e

\* The slot that a rebuild leaves for the unfiltered bindings.
FallbackOfBindings ==
    IF MpeBound # {} THEN ent[LastOf(MpeBound)].MpeReceiver
    ELSE IF MidiBound(-1) # {} THEN ent[LastOf(MidiBound(-1))].MidiReceiver.node_id
    ELSE 0

\* C31: in a rebuild of the routing table an insert of a MidiReceiver with
\* channel Some(c) changes at most the slot of channel c, and to its node; an
\* insert of an unfiltered MidiReceiver or of an MpeReceiver changes at most
\* the fallback slot.  The table that the rebuild commits holds, per channel,
\* the node of the last MidiReceiver of that channel, and in the fallback
\* slot the node of the last MpeReceiver when there is one, else the node of
\* the last unfiltered MidiReceiver.
C31_SlotsOfARebuild ==
    [][(AtSystem("midi_routing_sync_system") /\ eng.rebuild > 1) =>
         /\ \A c \in MidiChannels :
               eng'.working.channel[c] # eng.working.channel[c] =>
                  \E e \in MidiBound(c) :
                      eng'.working.channel[c] = ent[e].MidiReceiver.node_id
         /\ eng'.working.fallback # eng.working.fallback =>
               /\ eng'.working.channel = eng.working.channel
               /\ \/ \E e \in MidiBound(-1) :
                        eng'.working.fallback = ent[e].MidiReceiver.node_id
                  \/ \E e \in MpeBound : eng'.working.fallback = ent[e].MpeReceiver
         /\ (\E c \in MidiChannels : eng'.working.channel[c] # eng.working.channel[c]) =>
               eng'.working.fallback = eng.working.fallback
         /\ eng'.rebuild = 0 =>
               /\ eng'.routing.fallback = FallbackOfBindings
               /\ \A c \in MidiChannels :
                     eng'.routing.channel[c] =
                        IF MidiBound(c) = {} THEN 0
                        ELSE ent[LastOf(MidiBound(c))].MidiReceiver.node_id
      ]_vars

\* Reachable: a rebuild has committed a table whose fallback slot is the node
\* of an MpeReceiver while an unfiltered MidiReceiver binds another node.
C31_MpeHoldsFallback ==
    /\ eng.rebuild = 0 /\ ~HasChanges
    /\ \E e \in MpeBound : eng.routing.fallback = ent[e].MpeReceiver
    /\ \E e \in MidiBound(-1) : ent[e].MidiReceiver.node_id # eng.routing.fallback
    /\ \A e \in MidiBound(-1) : ent[e].MidiReceiver.node_id # eng.routing.fallback

\* ------------------------------------------------------------------ C32
\* C32 as stated: the origin that a run of recording_start_system hands to
\* sampler.start_recording equals the beat of the engine's transport in that
\* tick, whichever of transport_sync_system and recording_start_system runs
\* first.
C32_OriginIsCurrentBeat ==
    [][(AtSystem("recording_start_system") /\ HasEngine
            /\ AddedQuery("StartRecording") # {}) =>
         eng'.origin = eng.published.transport.current_beat
      ]_vars

\* Reachable: recording_start_system is about to consume a StartRecording in
\* a tick whose schedule runs it before transport_sync_system, and the
\* TransportState resource still holds the beat of the previous tick.
C32_StaleBeat ==
    /\ AtSystem("recording_start_system") /\ HasEngine
    /\ AddedQuery("StartRecording") # {}
    /\ order = "H"
    /\ res.mirrors.TransportState.beat # eng.published.transport.current_beat

\* ------------------------------------------------------------------ C33
\* The entities whose AudioVolume changed since the previous run of
\* audio_parameter_sync_system and whose AudioEmitter names node n.
VolumeChangedAt(n) == {e \in VolumeChanged : ent[e].AudioEmitter = n}

\* C33: a run of audio_parameter_sync_system sets the gain of a plain
\* SamplerUnit whose entity's AudioVolume changed to the value the
\* AudioVolume holds now (the last one written) and changes nothing else of
\* it, so a write of the value the gain already has leaves the node as it
\* was; every other node is left alone.  No other step of the build changes
\* the gain of a node of the graph: in a tick without a changed AudioVolume
\* the gain is not written, and the written gain is the one at the tick's
\* end.
C33_GainFollowsVolume ==
    [][/\ (RunOf("audio_parameter_sync_system") /\ HasEngine) =>
            \A n \in NodeIds :
                IF VolumeChangedAt(n) # {} /\ SamplerAt(net, n)
                THEN \E e \in VolumeChangedAt(n) :
                        /\ net'[n] = [net[n] EXCEPT !.gain = ent[e].AudioVolume]
                        /\ ent'[e].AudioVolume = ent[e].AudioVolume
                        /\ "AudioVolume" \notin ent'[e].changed
                ELSE net'[n] = net[n]
       /\ ~(RunOf("audio_parameter_sync_system") /\ HasEngine) =>
            \A n \in NodeIds :
                (Contains(net, n) /\ Contains(net', n)) => net'[n].gain = net[n].gain
      ]_vars

\* Reachable: audio_parameter_sync_system is about to run for an entity
\* whose sampler got the spawn volume as its gain in an earlier tick and
\* whose AudioVolume was turned down to 0 since.
C33_TurnedDown ==
    /\ AtSystem("audio_parameter_sync_system") /\ HasEngine
    /\ \E e \in VolumeChanged :
          LET n == ent[e].AudioEmitter IN
          /\ SamplerAt(net, n) /\ net[n].gain = SpawnVolume
          /\ ent[e].AudioVolume = 0

\* ------------------------------------------------------------------ C34
\* The entities whose TimeStretch changed since the previous run of
\* time_stretch_sync_system and whose TimeStretchControl holds the atomics
\* created with unit n.
StretchChangedAt(n) == {e \in StretchChanged : ent[e].TimeStretchControl = n}

\* The two atomics created with unit n.
Atomics(g, n) == << g[n].stretch_factor, g[n].pitch_cents >>

\* C34: a run of time_stretch_sync_system, with or without an engine, stores
\* the stretch_factor and pitch_cents that a changed TimeStretch holds now in
\* the two atomics of the entity's TimeStretchControl and changes nothing
\* else: no node is added, removed or altered otherwise, and atomics whose
\* TimeStretch did not change keep their values.  Outside such a run the
\* atomics of an existing control are never written.
C34_AtomicsFollowStretch ==
    [][/\ RunOf("time_stretch_sync_system") =>
            \A n \in NodeIds :
                IF StretchChangedAt(n) # {}
                THEN \E e \in StretchChangedAt(n) :
                        /\ net'[n] = [net[n] EXCEPT
                                        !.stretch_factor = ent[e].TimeStretch.stretch_factor,
                                        !.pitch_cents = ent[e].TimeStretch.pitch_cents]
                        /\ ent'[e].TimeStretch = ent[e].TimeStretch
                        /\ "TimeStretch" \notin ent'[e].changed
                ELSE net'[n] = net[n]
       /\ ~RunOf("time_stretch_sync_system") =>
            \A e \in Entities :
                LET n == ent[e].TimeStretchControl IN
                (ent[e].alive /\ n # 0) => Atomics(net', n) = Atomics(net, n)
      ]_vars

\* Reachable: time_stretch_sync_system is about to run for an entity whose
\* TimeStretch was changed after the tick that created its control: the
\* atomics still hold the values of the spawn.
C34_StretchedLater ==
    /\ AtSystem("time_stretch_sync_system")
    /\ \E e \in StretchChanged :
          LET n == ent[e].TimeStretchControl IN
          /\ n # 0
          /\ Atomics(net, n) # << ent[e].TimeStretch.stretch_factor,
                                  ent[e].TimeStretch.pitch_cents >>

\* ------------------------------------------------------------------ C35
\* The panner nodes of the graph.
Panners == {p \in NodeIds : net[p].kind = "SpatialPannerNode"}

\* C35 as stated: between two ticks no panner node is left in the graph
\* whose emitter's node has been removed from it.
C35_NoPannerWithoutEmitter ==
    Idle => \A p \in Panners : Contains(net, net[p].source)

\* Reachable: a tick has ended in which audio_cleanup_system finished an
\* emitter and removed its node, and the panner made for that emitter is
\* still a node of the graph, piped to the output.
C35_PannerLeftBehind ==
    /\ Idle
    /\ \E e \in Entities :
          LET p == ent[e].SpatialAudio.panner_node_id IN
          /\ ent[e].AudioPlaybackState = "Finished"
          /\ ~Contains(net, ent[e].AudioEmitter)
          /\ p # 0 /\ net[p].kind = "SpatialPannerNode" /\ net[p].piped
          /\ net[p].source = ent[e].AudioEmitter

\* ------------------------------------------------------------------ C40
\* The entities that carry AudioListener.
Listeners == {l \in Entities : ent[l].alive /\ "AudioListener" \in ent[l].comps}

\* (azimuth, elevation, distance) of emitter e in the frame of listener l.
HeardBy(l, e) ==
    LET r == Relative(l, ent[e].GlobalTransform.translation)
    IN << Atan2Degrees(-r[1], -r[3], TRUE),
          Atan2Degrees(r[2], Sqrt(r[1] * r[1] + r[3] * r[3]), FALSE),
          Length(r) >>

\* The position a run of spatial_audio_sync_system gave the panner of e and
\* the gain it gave the sampler of e belong to the view v = (azimuth,
\* elevation, distance).
PlacedAs(e, v) ==
    LET p == ent'[e].SpatialAudio.panner_node_id
        n == ent[e].AudioEmitter
    IN /\ net'[p].azimuth = v[1] /\ net'[p].elevation = v[2]
       /\ SamplerAt(net, n) =>
             net'[n].gain = compute_attenuation(v[3], ent[e].SpatialAudio.attenuation,
                                                ent[e].SpatialAudio.ref_distance,
                                                ent[e].SpatialAudio.max_distance)

\* C40: a run of spatial_audio_sync_system places every emitter that has a
\* panner in the frame of the listener when exactly one entity carries
\* AudioListener, and relative to the world origin when none or when two or
\* more do: with several listeners the result is the one without a listener,
\* not the view of any of them where the two differ.
C40_ListenerOnlyWhenSingle ==
    [][(RunOf("spatial_audio_sync_system") /\ HasEngine) =>
         \A e \in SpatialEmitters :
            LET p == ent'[e].SpatialAudio.panner_node_id IN
            (p # 0 /\ net'[p].kind = "SpatialPannerNode") =>
                IF Cardinality(Listeners) = 1
                THEN \A l \in Listeners : PlacedAs(e, HeardBy(l, e))
                ELSE /\ PlacedAs(e, HeardFromOrigin(e))
                     /\ \A l \in Listeners :
                           HeardBy(l, e) # HeardFromOrigin(e) => ~PlacedAs(e, HeardBy(l, e))
      ]_vars

\* Reachable: spatial_audio_sync_system is about to run with two listeners
\* and an emitter that each of them hears differently from the way it is
\* heard from the origin.
C40_TwoListeners ==
    /\ AtSystem("spatial_audio_sync_system") /\ HasEngine
    /\ Cardinality(Listeners) = 2
    /\ \E e \in SpatialEmitters :
          /\ Contains(net, ent[e].AudioEmitter)
          /\ \A l \in Listeners : HeardBy(l, e)[1] # HeardFromOrigin(e)[1]

\* ------------------------------------------------------------------ C36
\* The calls that splice: add, remove, connect, a typed lookup and a scalar
\* set.
Splices == {"add", "remove", "connect", "lookup", "set"}

\* C36 as stated: while the graph-mutation lock is held, every call that the
\* closure makes is a splice; units are built before the lock is taken.
C36_OnlySplicesInLock ==
    eng.lock.by # "" =>
        \A i \in 1..Len(eng.lock.todo) : eng.lock.todo[i].op \in Splices

\* Reachable: spatial_audio_sync_system holds the lock and the next call of
\* its closure is SpatialPannerNode::stereo().
C36_PannerBuiltInLock ==
    /\ eng.lock.by = "spatial_audio_sync_system"
    /\ eng.lock.todo # << >>
    /\ Head(eng.lock.todo) = LockedCall("construct", "SpatialPannerNode")

\* ------------------------------------------------------------------ C37
\* C37: the MidiInputEvents written so far, followed by what the channel
\* still holds, are at every moment the events the observer pushed, each
\* once and in the order of arrival; a turn of the drain takes the oldest
\* event out of the channel and writes it, whatever the producer did since
\* the turn before; and when a run of midi_input_event_system ends, every
\* event pushed before that moment has been written.
C37_EveryEventOnceInOrder ==
    [][/\ res'.midi_input \o eng'.input_channel = eng'.pushed
       /\ (AtSystem("midi_input_event_system") /\ pc' = pc /\ res' # res) =>
             /\ res'.midi_input = Append(res.midi_input, Head(eng.input_channel))
             /\ eng'.input_channel = Tail(eng.input_channel)
             /\ eng'.pushed = eng.pushed
       /\ RunOf("midi_input_event_system") =>
             /\ res'.midi_input = eng.pushed
             /\ res' = res
      ]_vars

\* Reachable: the drain is under way, it has written one event, and the
\* channel holds two more, the last of another kind than the one before.
C37_DrainUnderWay ==
    /\ AtSystem("midi_input_event_system")
    /\ Len(res.midi_input) = 1 /\ Len(eng.input_channel) = 2
    /\ eng.input_channel[1] # eng.input_channel[2]

\* ------------------------------------------------------------------ C38
\* An intent of kind k was consumed in the tick that is about to end: the
\* command that removes it is queued.
ConsumedNow(k) == \E e \in Entities : Holds(cmds, Remove(e, k))

\* C38: when a tick ends in which an enable intent and a disable intent of
\* the same subsystem were consumed, the subsystem is off (live analysis off
\* in the engine and LiveAnalysisData.is_live false; input monitoring off;
\* MidiDeviceState.connected None) and no entity carries a consumed intent
\* any more, whichever entity got which intent and in whichever order.
C38_DisableWins ==
    [][TickEnds =>
         /\ (ConsumedNow("EnableLiveAnalysis") /\ ConsumedNow("DisableLiveAnalysis")) =>
               ~res'.is_live /\ ~eng'.live_analysis
         /\ (ConsumedNow("EnableAudioInput") /\ ConsumedNow("DisableAudioInput")) =>
               ~eng'.input_monitoring
         /\ (ConsumedNow("ConnectMidiDevice") /\ ConsumedNow("DisconnectMidiDevice")) =>
               ~res'.connected
         /\ \A e \in Entities, k \in ControlKinds :
               Holds(cmds, Remove(e, k)) => k \notin ent'[e].intents
      ]_vars

\* Reachable: a tick is about to end in which an EnableAudioInput that asks
\* for monitoring and a DisableAudioInput were consumed, the disable intent
\* on the entity that the query yields first.
C38_BothInOneTick ==
    /\ AtSystem("end_of_frame") /\ HasEngine
    /\ Holds(cmds, Remove(1, "DisableAudioInput"))
    /\ Holds(cmds, Remove(2, "EnableAudioInput"))
    /\ ent[2].input.monitoring

\* ------------------------------------------------------------------ C39
\* The MidiDeviceEvents a step writes.
Written == SubSeq(res'.events, Len(res.events) + 1, Len(res'.events))

\* The step is a run of a system that writes MidiDeviceEvents.
DeviceRun == RunOf("midi_device_connect_system") \/ RunOf("midi_device_poll_system")

\* C39: a run of midi_device_connect_system or of midi_device_poll_system
\* writes at most one Disconnected, as its last event, and only if
\* MidiDeviceState.connected was Some right before: from before the run or
\* from a Connected the same run wrote ahead of it; after a Disconnected the
\* state is None, so a second Disconnected needs a connected state in
\* between.  A run whose ConnectMidiDevice intents all fail and that
\* consumes no DisconnectMidiDevice leaves MidiDeviceState.connected as it
\* was and writes no event.
C39_DisconnectedOnlyFromConnected ==
    [][DeviceRun =>
         /\ \A i \in 1..Len(Written) :
               Written[i] = "Disconnected" =>
                  /\ i = Len(Written)
                  /\ res.connected \/ \E j \in 1..(i - 1) : Written[j] = "Connected"
                  /\ ~res'.connected
         /\ (/\ RunOf("midi_device_connect_system")
             /\ \A e \in AddedQuery("ConnectMidiDevice") :
                   "ConnectMidiDevice" \in ent'[e].failed
             /\ AddedQuery("DisconnectMidiDevice") = {}) =>
               /\ res'.connected = res.connected
               /\ Written = << >>
      ]_vars

\* Reachable: the poll is about to run in a tick in which
\* midi_device_connect_system has already consumed a DisconnectMidiDevice
\* and written Disconnected, and the engine has no device: the state is None.
C39_PollAfterDisconnect ==
    /\ AtSystem("midi_device_poll_system") /\ engine = "midi"
    /\ Holds(res.events, "Disconnected")
    /\ \E e \in Entities : Holds(cmds, Remove(e, "DisconnectMidiDevice"))
    /\ ~eng.midi_device /\ ~res.connected

====
